---------------------------- MODULE Spec2Model ----------------------------
(***************************************************************************)
(* Verification model of the avoidance utilities of the behavior path      *)
(* planner (object filtering, moving/stop timers, avoidance necessity,     *)
(* registered-object bookkeeping).                                         *)
(*                                                                         *)
(* Numbers.  The code computes with doubles; the model uses integers.      *)
(* Lengths and times are whole units, quantities that the code halves      *)
(* (vehicle_width, object length) are drawn even so that Half is exact,    *)
(* and the hysteresis factor is kept in tenths (10 = 1.0).                 *)
(***************************************************************************)
EXTENDS Integers, Sequences, FiniteSets, TLC

VARIABLES
  parameters,          \* AvoidanceParameters (fixed after construction)
  planner_data,        \* PlannerData: vehicle_width
  now,                 \* rclcpp::Clock(RCL_ROS_TIME).now()
  pc,                  \* position in the planning cycle / outcome of the last call
  objects,             \* ObjectDataArray handed to the utilities in this cycle
  data,                \* AvoidancePlanningData
  stopped_objects,     \* AvoidanceModule::stopped_objects_
  registered_objects,  \* AvoidanceModule::registered_objects_
  erased,              \* history: ids of the entries erased by the last update
  prev_required,       \* history: id -> avoid_required decided in the previous cycle
  moving_since,        \* history: id -> time of the first of the current run of
                       \*          consecutive observations above the speed threshold
  stopped_at,          \* history: id -> time of the last observation at or below it
  stopped_since,       \* history: id -> time of the first observation at or below it
                       \* that no movement longer than the time threshold followed
  margin_in,           \* inputs of the avoid-margin selection (pure-function check)
  margin_out,          \* its result
  base_lines,          \* AvoidLineArray: the registered raw shift lines
  added_lines,         \* AvoidLineArray: the raw shift lines of this cycle
  lines,               \* AvoidLineArray: the lines the utilities work on / return
  module,              \* AvoidanceModule: path shifter, registered shift lines, RTC
  call,                \* arguments of the call of a utility that are no other state
  ret,                 \* the value the call returned
  node                 \* NDTScanMatcher: members, mutexes and the position of each
                       \* thread of the node

line_vars == <<base_lines, added_lines, lines>>

vars == <<parameters, planner_data, now, pc, objects, data, stopped_objects,
          registered_objects, erased, prev_required, moving_since,
          stopped_at, stopped_since, margin_in, margin_out, line_vars, module, call, ret,
          node>>

-----------------------------------------------------------------------------
(* Bounds of the model *)

MaxObjects == 2        \* longest object list of a cycle (multi-object specifications)
MaxTime == 4           \* the clock stops advancing here
MaxShoulder == 8       \* largest to_road_shoulder_distance of the margin check
MaxMargin == 2         \* largest road-shoulder margin / lateral buffer of the margin check
MaxHalfWidth == 1      \* largest 0.5 * vehicle_width of the margin check
MaxGrid == 5           \* object footprints lie between 0 and MaxGrid along the path
MaxLines == 2          \* longest array of shift lines
MaxSpeed == 2          \* largest avoidance ego speed
MaxPoints == 3         \* number of points of the reference path
MaxSkip == 5     \* scans in a row that do not converge
MaxPoses == 2    \* poses in the initial-pose buffer
MaxLanelets == 3       \* number of lanelets of the map

(* Program constants *)

Infinity == 1000000    \* std::numeric_limits<double>::infinity()
DoubleMax == 999999    \* std::numeric_limits<double>::max()
CROSSWALK_THRESHOLD == 2   \* constexpr double THRESHOLD = 2.0 (isWithinCrosswalk)
POS_THR == 3           \* constexpr auto POS_THR = 1.5, in half metres

-----------------------------------------------------------------------------
(* Arithmetic helpers *)

Abs(x) == IF x < 0 THEN -x ELSE x

Min2(a, b) == IF a < b THEN a ELSE b

Half(x) == x \div 2

SetMin(S) == CHOOSE x \in S : \A y \in S : x <= y

SetMax(S) == CHOOSE x \in S : \A y \in S : x >= y

\* boost::optional<double>: <<>> is boost::none, <<m>> holds m
NoMargin == <<>>

-----------------------------------------------------------------------------
(* Parameters *)

ObjectParameter(target) ==
  [is_target |-> target, moving_speed_threshold |-> 1, moving_time_threshold |-> 2,
   safety_buffer_lateral |-> 1, avoid_margin_lateral |-> 1,
   envelope_buffer_margin |-> 1]

\* type -> parameter map: BUS has no entry, UNKNOWN has one but is no target
ObjectParameters ==
  [l \in {"CAR", "PEDESTRIAN", "BICYCLE", "UNKNOWN"} |-> ObjectParameter(l # "UNKNOWN")]

BaseParameters ==
  [object_parameters |-> ObjectParameters,
   object_check_backward_distance |-> 1,
   object_check_max_forward_distance |-> 3,
   object_check_goal_distance |-> 1,
   soft_road_shoulder_margin |-> 2,
   hard_road_shoulder_margin |-> 1,
   lateral_execution_threshold |-> 1,
   enable_force_avoidance_for_stopped_vehicle |-> TRUE,
   threshold_time_force_avoidance_for_stopped_vehicle |-> 3,
   object_ignore_section_traffic_light_in_front_distance |-> 5,
   object_ignore_section_crosswalk_in_front_distance |-> 5,
   object_ignore_section_crosswalk_behind_distance |-> 1,
   threshold_distance_object_is_on_center |-> 1,
   object_check_shiftable_ratio |-> 6,
   object_check_min_road_shoulder_width |-> 1,
   hysteresis_factor_expand_rate |-> 20,
   object_last_seen_threshold |-> 2,
   max_lateral_jerk |-> 4,
   check_shift_side_lane |-> TRUE,
   check_other_side_lane |-> FALSE,
   check_current_lane |-> TRUE,
   check_other_object |-> TRUE,
   check_unavoidable_object |-> TRUE,
   enable_bound_clipping |-> FALSE,
   disable_path_update |-> FALSE,
   use_adjacent_lane |-> TRUE,
   policy_deceleration |-> "best_effort"]

ParameterSets ==
  {[BaseParameters EXCEPT !.enable_force_avoidance_for_stopped_vehicle = e] :
     e \in BOOLEAN}

Labels == {"CAR", "PEDESTRIAN", "BICYCLE", "UNKNOWN", "BUS"}

-----------------------------------------------------------------------------
(* ObjectData.  The fields up to sub_type_road_shoulder stand for what       *)
(* perception and the map say about the object (pose, twist, envelope,       *)
(* lanelet queries); the others are the fields the utilities write.          *)
(* centroid_lane names the lanelet that holds the centroid of the object.    *)
(* Polygons are rectangles [x1, x2] x [y1, y2] in the frame of the path;     *)
(* footprint is the object polygon, envelope_poly the envelope polygon.      *)

DefaultObject ==
  [object_id |-> 1, label |-> "CAR", speed |-> 0, position |-> 0,
   footprint |-> [x1 |-> 0, x2 |-> 1, y1 |-> 0, y2 |-> 1],
   envelope_poly |-> [x1 |-> 0, x2 |-> 1, y1 |-> 0, y2 |-> 1],
   envelope_arc |-> {0},
   closest_lanelet_found |-> TRUE,
   shoulder_distance |-> 6,
   crosswalk_distances |-> {},
   to_traffic_light |-> 9,
   dist_to_crosswalk |-> 9,
   is_in_ego_lane |-> FALSE,
   turn_direction |-> "else",
   centroid_offset |-> 0,
   to_boundary |-> 1,
   sub_type_road_shoulder |-> TRUE,
   lateral |-> -1, overhang_dist |-> 0, distance_factor |-> 1,
   move_time |-> 0, stop_time |-> 0, last_move |-> 0, last_stop |-> 0,
   last_seen |-> 0, lost_time |-> 0,
   longitudinal |-> 0, length |-> 0,
   to_road_shoulder_distance |-> 0,
   avoid_margin |-> NoMargin,
   reason |-> "",
   avoid_required |-> FALSE,
   is_avoidable |-> FALSE,
   centroid_lane |-> "current",
   shiftable_ratio |-> 0,
   to_stop_factor_distance |-> 0,
   to_stop_line |-> 0,
   is_stoppable |-> FALSE]

-----------------------------------------------------------------------------
(* Predicates of utils.cpp *)

isOnRight(obj) == obj.lateral < 0

isTargetObjectType(label, p) ==
  IF label \notin DOMAIN p.object_parameters
    THEN FALSE
    ELSE p.object_parameters[label].is_target

isVehicleTypeObject(object) ==
  object.label \notin {"UNKNOWN", "PEDESTRIAN", "BICYCLE"}

\* mutant: the object must be near every conflicting crosswalk
isWithinCrosswalk_AllConflicts(object) ==
  /\ object.crosswalk_distances # {}
  /\ \A d \in object.crosswalk_distances : d < CROSSWALK_THRESHOLD

\* crosswalk_distances: boost::geometry::distance of the object position to the
\* polygon of each conflicting crosswalk
isWithinCrosswalk(object) ==
  \E d \in object.crosswalk_distances : d < CROSSWALK_THRESHOLD

\* std::fabs(shift_length) > 1e-3 ? shift_length : 0.0; on whole units the
\* cut-off only maps 0 to 0
\* mutant: the margin is added on both sides of the path
calcShiftLength_AlwaysAdds(is_object_on_right, overhang_dist, avoid_margin) ==
  LET shift_length == overhang_dist + avoid_margin
  IN IF Abs(shift_length) > 0 THEN shift_length ELSE 0

calcShiftLength(is_object_on_right, overhang_dist, avoid_margin) ==
  LET shift_length == IF is_object_on_right
                        THEN overhang_dist + avoid_margin
                        ELSE overhang_dist - avoid_margin
  IN IF Abs(shift_length) > 0 THEN shift_length ELSE 0

isShiftNecessary(is_object_on_right, shift_length) ==
  IF is_object_on_right /\ shift_length < 0 THEN FALSE
  ELSE IF ~is_object_on_right /\ shift_length > 0 THEN FALSE
  ELSE TRUE

fillLongitudinalAndLengthByClosestEnvelopeFootprint(obj) ==
  LET min_distance == SetMin(obj.envelope_arc)
      max_distance == SetMax(obj.envelope_arc)
  IN [obj EXCEPT !.longitudinal = min_distance,
                 !.length = max_distance - min_distance]

-----------------------------------------------------------------------------
(* filterTargetObjects *)

\* mutant: the soft and the hard road-shoulder margin are swapped
AvoidMargin_SwappedLimits(to_road_shoulder_distance, distance_factor, object_parameter, p, vehicle_width) ==
  LET max_avoid_margin == object_parameter.safety_buffer_lateral * distance_factor +
                          object_parameter.avoid_margin_lateral + Half(vehicle_width)
      min_avoid_margin == object_parameter.safety_buffer_lateral + Half(vehicle_width)
      soft_lateral_distance_limit ==
        to_road_shoulder_distance - p.hard_road_shoulder_margin - Half(vehicle_width)
      hard_lateral_distance_limit ==
        to_road_shoulder_distance - p.soft_road_shoulder_margin - Half(vehicle_width)
  IN IF hard_lateral_distance_limit < min_avoid_margin THEN NoMargin
     ELSE IF soft_lateral_distance_limit < min_avoid_margin THEN <<min_avoid_margin>>
     ELSE <<Min2(soft_lateral_distance_limit, max_avoid_margin)>>

\* mutant: the nominal case is not limited by max_avoid_margin
AvoidMargin_NoCap(to_road_shoulder_distance, distance_factor, object_parameter, p, vehicle_width) ==
  LET min_avoid_margin == object_parameter.safety_buffer_lateral + Half(vehicle_width)
      soft_lateral_distance_limit ==
        to_road_shoulder_distance - p.soft_road_shoulder_margin - Half(vehicle_width)
      hard_lateral_distance_limit ==
        to_road_shoulder_distance - p.hard_road_shoulder_margin - Half(vehicle_width)
  IN IF hard_lateral_distance_limit < min_avoid_margin THEN NoMargin
     ELSE IF soft_lateral_distance_limit < min_avoid_margin THEN <<min_avoid_margin>>
     ELSE <<soft_lateral_distance_limit>>

\* mutant: the hard limit is not checked before the road-shoulder margin is expanded
AvoidMargin_HardLimitUnchecked(to_road_shoulder_distance, distance_factor, object_parameter, p, vehicle_width) ==
  LET max_avoid_margin == object_parameter.safety_buffer_lateral * distance_factor +
                          object_parameter.avoid_margin_lateral + Half(vehicle_width)
      min_avoid_margin == object_parameter.safety_buffer_lateral + Half(vehicle_width)
      soft_lateral_distance_limit ==
        to_road_shoulder_distance - p.soft_road_shoulder_margin - Half(vehicle_width)
  IN IF soft_lateral_distance_limit < min_avoid_margin THEN <<min_avoid_margin>>
     ELSE <<Min2(soft_lateral_distance_limit, max_avoid_margin)>>

\* the lambda that computes avoid_margin
AvoidMargin(to_road_shoulder_distance, distance_factor, object_parameter, p, vehicle_width) ==
  LET max_avoid_margin == object_parameter.safety_buffer_lateral * distance_factor +
                          object_parameter.avoid_margin_lateral + Half(vehicle_width)
      min_avoid_margin == object_parameter.safety_buffer_lateral + Half(vehicle_width)
      soft_lateral_distance_limit ==
        to_road_shoulder_distance - p.soft_road_shoulder_margin - Half(vehicle_width)
      hard_lateral_distance_limit ==
        to_road_shoulder_distance - p.hard_road_shoulder_margin - Half(vehicle_width)
  IN IF hard_lateral_distance_limit < min_avoid_margin THEN NoMargin
     ELSE IF soft_lateral_distance_limit < min_avoid_margin THEN <<min_avoid_margin>>
     ELSE <<Min2(soft_lateral_distance_limit, max_avoid_margin)>>

\* o.reason = r; data.other_objects.push_back(o); continue;
Other(o, r) == [result |-> "other", object |-> [o EXCEPT !.reason = r]]

\* mutant: the selected margin is not stored in the target object
Target_KeepsMargin(o, avoid_margin, t) ==
  [result |-> "target", object |-> [o EXCEPT !.last_seen = t]]

\* o.last_seen = now; o.avoid_margin = avoid_margin; data.target_objects.push_back(o);
Target(o, avoid_margin, t) ==
  [result |-> "target",
   object |-> [o EXCEPT !.last_seen = t, !.avoid_margin = avoid_margin]]

\* mutant: the sign of the lateral distance is not turned for an object on the right
ShiftableRatio_LeftFormulaOnly(o, p) ==
  LET object_shiftable_distance ==
        o.to_boundary + (IF o.sub_type_road_shoulder
                           THEN 0 ELSE p.object_check_min_road_shoulder_width)
  IN (10 * o.centroid_offset) \div object_shiftable_distance

\* o.shiftable_ratio = arc_coordinates.distance / object_shiftable_distance, in tenths
ShiftableRatio(o, p) ==
  LET object_shiftable_distance ==
        o.to_boundary + (IF o.sub_type_road_shoulder
                           THEN 0 ELSE p.object_check_min_road_shoulder_width)
      distance == IF isOnRight(o) THEN -1 * o.centroid_offset ELSE o.centroid_offset
  IN (10 * distance) \div object_shiftable_distance

\* mutant: the traffic light is not looked at, only the crosswalk
FilterVehicle_NoTrafficLight(o2, avoid_margin, p, t) ==
  LET stop_time_longer_than_threshold ==
        o2.stop_time > p.threshold_time_force_avoidance_for_stopped_vehicle
      force == stop_time_longer_than_threshold /\
               p.enable_force_avoidance_for_stopped_vehicle
      to_traffic_light == o2.to_traffic_light
      to_crosswalk == o2.dist_to_crosswalk - o2.longitudinal
      stop_for_crosswalk ==
        /\ to_crosswalk < p.object_ignore_section_crosswalk_in_front_distance
        /\ to_crosswalk > -1 * p.object_ignore_section_crosswalk_behind_distance
      not_parked_object == stop_for_crosswalk
      o3 == IF force
              THEN [o2 EXCEPT !.to_stop_factor_distance = Min2(to_traffic_light, to_crosswalk)]
              ELSE o2
  IN IF force /\ ~not_parked_object THEN Target(o3, avoid_margin, t)
     ELSE IF Abs(o3.lateral) < p.threshold_distance_object_is_on_center
       THEN Other(o3, "TOO_NEAR_TO_CENTERLINE")
     ELSE IF o3.is_in_ego_lane
       THEN IF o3.turn_direction \in {"right", "left", "straight"}
              THEN Other(o3, "NOT_PARKING_OBJECT")
              ELSE LET o4 == [o3 EXCEPT !.shiftable_ratio = ShiftableRatio(o3, p)]
                       is_parked_vehicle ==
                         o4.shiftable_ratio > p.object_check_shiftable_ratio
                   IN IF ~is_parked_vehicle
                        THEN Other(o4, "NOT_PARKING_OBJECT")
                        ELSE Target(o4, avoid_margin, t)
     ELSE Target(o3, avoid_margin, t)

\* the checks on vehicle type objects (after the non-vehicle branch)
FilterVehicle(o2, avoid_margin, p, t) ==
  LET stop_time_longer_than_threshold ==
        o2.stop_time > p.threshold_time_force_avoidance_for_stopped_vehicle
      force == stop_time_longer_than_threshold /\
               p.enable_force_avoidance_for_stopped_vehicle
      to_traffic_light == o2.to_traffic_light
      to_crosswalk == o2.dist_to_crosswalk - o2.longitudinal
      stop_for_crosswalk ==
        /\ to_crosswalk < p.object_ignore_section_crosswalk_in_front_distance
        /\ to_crosswalk > -1 * p.object_ignore_section_crosswalk_behind_distance
      not_parked_object ==
        \/ to_traffic_light < p.object_ignore_section_traffic_light_in_front_distance
        \/ stop_for_crosswalk
      o3 == IF force
              THEN [o2 EXCEPT !.to_stop_factor_distance = Min2(to_traffic_light, to_crosswalk)]
              ELSE o2
  IN IF force /\ ~not_parked_object THEN Target(o3, avoid_margin, t)
     ELSE IF Abs(o3.lateral) < p.threshold_distance_object_is_on_center
       THEN Other(o3, "TOO_NEAR_TO_CENTERLINE")
     ELSE IF o3.is_in_ego_lane
       THEN IF o3.turn_direction \in {"right", "left", "straight"}
              THEN Other(o3, "NOT_PARKING_OBJECT")
              ELSE LET o4 == [o3 EXCEPT !.shiftable_ratio = ShiftableRatio(o3, p)]
                       is_parked_vehicle ==
                         o4.shiftable_ratio > p.object_check_shiftable_ratio
                   IN IF ~is_parked_vehicle
                        THEN Other(o4, "NOT_PARKING_OBJECT")
                        ELSE Target(o4, avoid_margin, t)
     ELSE Target(o3, avoid_margin, t)

\* from the avoid margin on (after the closest lanelet was found)
FilterByMargin(o2, object_parameter, p, pd, t) ==
  LET avoid_margin == AvoidMargin(o2.to_road_shoulder_distance, o2.distance_factor,
                                  object_parameter, p, pd.vehicle_width)
      shift_length == IF avoid_margin # NoMargin
                        THEN calcShiftLength(isOnRight(o2), o2.overhang_dist, avoid_margin[1])
                        ELSE 0
  IN IF avoid_margin # NoMargin /\ ~isShiftNecessary(isOnRight(o2), shift_length)
       THEN Other(o2, "NotNeedAvoidance")
     ELSE IF avoid_margin # NoMargin /\ Abs(shift_length) < p.lateral_execution_threshold
       THEN Other(o2, "LessThanExecutionThreshold")
     ELSE IF ~isVehicleTypeObject(o2)
       THEN IF isWithinCrosswalk(o2)
              THEN Other(o2, "CrosswalkUser")
              ELSE Target(o2, avoid_margin, t)
     ELSE FilterVehicle(o2, avoid_margin, p, t)

\* mutant: the goal check comes before the forward-distance check
FilterByRange_GoalFirst(o1, dist_to_goal, p) ==
  IF o1.longitudinal < -1 * p.object_check_backward_distance
    THEN "OBJECT_IS_BEHIND_THRESHOLD"
  ELSE IF o1.longitudinal > dist_to_goal
    THEN "OBJECT_BEHIND_PATH_GOAL"
  ELSE IF o1.longitudinal > p.object_check_max_forward_distance
    THEN "OBJECT_IS_IN_FRONT_THRESHOLD"
  ELSE IF o1.longitudinal + Half(o1.length) + p.object_check_goal_distance > dist_to_goal
    THEN "TooNearToGoal"
  ELSE ""

\* the longitudinal range checks
FilterByRange(o1, dist_to_goal, p) ==
  IF o1.longitudinal < -1 * p.object_check_backward_distance
    THEN "OBJECT_IS_BEHIND_THRESHOLD"
  ELSE IF o1.longitudinal > p.object_check_max_forward_distance
    THEN "OBJECT_IS_IN_FRONT_THRESHOLD"
  ELSE IF o1.longitudinal > dist_to_goal
    THEN "OBJECT_BEHIND_PATH_GOAL"
  ELSE IF o1.longitudinal + Half(o1.length) + p.object_check_goal_distance > dist_to_goal
    THEN "TooNearToGoal"
  ELSE ""

\* the parameter lookup of the loop body: object_parameters.at(object_type)
\* throws std::out_of_range when the type has no entry
ParameterLookupThrows(o, p) == o.label \notin DOMAIN p.object_parameters

\* mutant: a moving object gets its reason but is not pushed to other_objects
FilterObject_MovingNotPushed(o, dist_to_goal, p, pd, t) ==
  IF ParameterLookupThrows(o, p) THEN [result |-> "throw", object |-> o]
  ELSE LET object_parameter == p.object_parameters[o.label] IN
    IF ~isTargetObjectType(o.label, p) THEN Other(o, "OBJECT_IS_NOT_TYPE")
    ELSE IF o.move_time > object_parameter.moving_time_threshold
      THEN [result |-> "skip", object |-> [o EXCEPT !.reason = "MOVING_OBJECT"]]
    ELSE LET o1 == fillLongitudinalAndLengthByClosestEnvelopeFootprint(o)
             range_reason == FilterByRange(o1, dist_to_goal, p)
         IN IF range_reason # "" THEN Other(o1, range_reason)
            ELSE IF ~o1.closest_lanelet_found THEN [result |-> "skip", object |-> o1]
            ELSE FilterByMargin(
                   [o1 EXCEPT !.to_road_shoulder_distance = o1.shoulder_distance],
                   object_parameter, p, pd, t)

\* mutant: an object that still carries a reason is taken as judged already
FilterObject_SkipsJudgedObjects(o, dist_to_goal, p, pd, t) ==
  IF o.reason # "" THEN [result |-> "skip", object |-> o]
  ELSE IF ParameterLookupThrows(o, p) THEN [result |-> "throw", object |-> o]
  ELSE LET object_parameter == p.object_parameters[o.label] IN
    IF ~isTargetObjectType(o.label, p) THEN Other(o, "OBJECT_IS_NOT_TYPE")
    ELSE IF o.move_time > object_parameter.moving_time_threshold
      THEN Other(o, "MOVING_OBJECT")
    ELSE LET o1 == fillLongitudinalAndLengthByClosestEnvelopeFootprint(o)
             range_reason == FilterByRange(o1, dist_to_goal, p)
         IN IF range_reason # "" THEN Other(o1, range_reason)
            ELSE IF ~o1.closest_lanelet_found THEN [result |-> "skip", object |-> o1]
            ELSE FilterByMargin(
                   [o1 EXCEPT !.to_road_shoulder_distance = o1.shoulder_distance],
                   object_parameter, p, pd, t)

\* one iteration of the loop over the objects; result is "throw" (the lookup
\* threw), "other", "target" or "skip" (continue without pushing)
FilterObject(o, dist_to_goal, p, pd, t) ==
  IF ParameterLookupThrows(o, p) THEN [result |-> "throw", object |-> o]
  ELSE LET object_parameter == p.object_parameters[o.label] IN
    IF ~isTargetObjectType(o.label, p) THEN Other(o, "OBJECT_IS_NOT_TYPE")
    ELSE IF o.move_time > object_parameter.moving_time_threshold
      THEN Other(o, "MOVING_OBJECT")
    ELSE LET o1 == fillLongitudinalAndLengthByClosestEnvelopeFootprint(o)
             range_reason == FilterByRange(o1, dist_to_goal, p)
         IN IF range_reason # "" THEN Other(o1, range_reason)
            ELSE IF ~o1.closest_lanelet_found THEN [result |-> "skip", object |-> o1]
            ELSE FilterByMargin(
                   [o1 EXCEPT !.to_road_shoulder_distance = o1.shoulder_distance],
                   object_parameter, p, pd, t)

RECURSIVE FilterLoop(_, _, _, _, _, _)
FilterLoop(acc, i, dist_to_goal, p, pd, t) ==
  IF i > Len(acc.objects) THEN acc
  ELSE LET r == FilterObject(acc.objects[i], dist_to_goal, p, pd, t)
           objs == [acc.objects EXCEPT ![i] = r.object]
       IN IF r.result = "throw" THEN [acc EXCEPT !.thrown = TRUE]
          ELSE FilterLoop(
                 [objects |-> objs,
                  target_objects |-> IF r.result = "target"
                                       THEN Append(acc.target_objects, r.object)
                                       ELSE acc.target_objects,
                  other_objects |-> IF r.result = "other"
                                      THEN Append(acc.other_objects, r.object)
                                      ELSE acc.other_objects,
                  thrown |-> FALSE],
                 i + 1, dist_to_goal, p, pd, t)

DistToGoal(d) == IF d.in_goal_route_section THEN d.arc_to_goal ELSE DoubleMax

filterTargetObjects(objs, d, p, pd, t) ==
  LET start == [objects |-> objs, target_objects |-> d.target_objects,
                other_objects |-> d.other_objects, thrown |-> FALSE]
  IN IF d.current_lanelets = <<>> THEN start
     ELSE FilterLoop(start, 1, DistToGoal(d), p, pd, t)

-----------------------------------------------------------------------------
(* Inputs of a planning cycle *)

EmptyData ==
  [current_lanelets |-> <<>>, in_goal_route_section |-> FALSE, arc_to_goal |-> 3,
   target_objects |-> <<>>, other_objects |-> <<>>,
   reference_path |-> <<>>, arclength_from_ego |-> <<>>, comfortable |-> FALSE,
   safe |-> TRUE, avoidance_feasible |-> TRUE, yield_required |-> FALSE,
   state |-> "NOT_AVOID", stop_point |-> <<>>]

\* AvoidancePlanningData is rebuilt every cycle: lanelets and route position
\* come from the map, the object partitions start empty
PlanningInputs ==
  {[EmptyData EXCEPT !.current_lanelets = l, !.in_goal_route_section = g,
                     !.arc_to_goal = a] :
     l \in {<<>>, <<1>>}, g \in BOOLEAN, a \in {1, 3}}

\* objects that differ in what the first checks and the lanelet lookup read
SmallObjects ==
  {[DefaultObject EXCEPT !.label = l, !.move_time = m, !.closest_lanelet_found = f] :
     l \in Labels, m \in {0, Infinity}, f \in BOOLEAN}

\* what the checks after the lanelet lookup read, for a pedestrian or bicycle ...
PedestrianObjects ==
  {[DefaultObject EXCEPT !.label = l, !.envelope_arc = a,
                         !.shoulder_distance = d, !.lateral = lat,
                         !.overhang_dist = ov, !.crosswalk_distances = c] :
     l \in {"PEDESTRIAN", "BICYCLE"},
     a \in {{-2}, {0}, {0, 2}, {4}}, d \in {3, 4, 6}, lat \in {-1, 0, 1},
     ov \in {-4, -2, 0, 2, 4}, c \in {{}, {1}, {2}, {1, 2}}}

\* ... and for a vehicle
VehicleObjects ==
  {[DefaultObject EXCEPT !.label = "CAR", !.envelope_arc = a,
                         !.shoulder_distance = d, !.lateral = lat,
                         !.overhang_dist = ov, !.stop_time = st,
                         !.to_traffic_light = tl, !.dist_to_crosswalk = cw,
                         !.is_in_ego_lane = lane[1], !.turn_direction = lane[2],
                         !.centroid_offset = lane[3],
                         !.sub_type_road_shoulder = lane[4]] :
     a \in {{-2}, {0}, {0, 2}, {4}}, d \in {3, 4, 6}, lat \in {-1, 0, 1},
     ov \in {-4, -2, 0, 2, 4}, st \in {0, 5}, tl \in {1, 9}, cw \in {-1, 1, 9},
     lane \in {<<FALSE, "else", 0, TRUE>>, <<TRUE, "left", 0, TRUE>>} \cup
              {<<TRUE, "else", c, s>> : c \in {-1, 0, 1}, s \in BOOLEAN}}

RichObjects == SmallObjects \cup PedestrianObjects \cup VehicleObjects

\* object lists of up to MaxObjects objects; object ids follow the position
RECURSIVE ObjectLists(_, _)
ObjectLists(S, n) ==
  IF n = 0 THEN {<<>>}
  ELSE LET shorter == ObjectLists(S, n - 1)
       IN shorter \cup
          {Append(l, [o EXCEPT !.object_id = n]) : l \in {x \in shorter : Len(x) = n - 1},
                                                   o \in S}

-----------------------------------------------------------------------------
(* The filtering specifications *)

InitHistory ==
  /\ erased = {}
  /\ prev_required = <<>>
  /\ moving_since = <<>>
  /\ stopped_at = <<>>
  /\ stopped_since = <<>>

InitMargin ==
  /\ margin_in = <<>>
  /\ margin_out = NoMargin

InitLines ==
  /\ base_lines = <<>>
  /\ added_lines = <<>>
  /\ lines = <<>>

\* AvoidanceModule after initVariables: nothing registered, no base offset
\* (lengths of the path shifter in tenths of a metre); safety_passed is
\* history: the safety checker has passed the candidate that was committed.
\* An RTC interface is the set of its cooperate statuses, one per registered
\* uuid; uuid_map_ holds two fresh uuids and candidate_uuid_ a third value.
EmptyModule ==
  [path_shifter |-> [base_offset |-> 0, shift_lines |-> <<>>],
   left_shift_array |-> <<>>, right_shift_array |-> <<>>,
   registered_raw_shift_lines |-> <<>>, current_raw_shift_lines |-> <<>>,
   rtc_registered |-> {}, new_module_launch_locked |-> FALSE,
   safety_passed |-> FALSE,
   rtc_interface_ptr_map |-> [left |-> {}, right |-> {}],
   uuid_map |-> [left |-> "uuid_left", right |-> "uuid_right"],
   candidate_uuid |-> "uuid_none"]

InitModule == module = EmptyModule

\* a value of the diagnostic state map for a key that has no entry
Absent == -1

\* NDTScanMatcher after construction.  state is *state_ptr_ with the keys that
\* timer_diagnostic evaluates, the numbers being the ones that their strings
\* denote; initial_pose_msg_ptr_array and regularization_pose_msg_ptr_array are
\* the lengths of the buffers; ndt is what the callbacks ask of *ndt_ptr_;
\* thread is the position of the diagnostic thread and of the callback running
\* in each callback group; a mutex names the thread that holds it;
\* unconverged_run is history: the number of aligned scans since the last
\* converged one
IdleNode ==
  [is_activated |-> FALSE,
   state |-> [state |-> "Initializing", lidar_topic_delay_time_sec |-> Absent,
              skipping_publish_num |-> Absent,
              nearest_voxel_transformation_likelihood |-> Absent,
              execution_time |-> Absent,
              is_local_optimal_solution_oscillation |-> Absent],
   skipping_publish_num |-> 0,
   initial_pose_msg_ptr_array |-> 0,
   regularization_pose_msg_ptr_array |-> 0,
   ndt |-> [input_target |-> TRUE, input_source |-> FALSE, max_iterations |-> 2],
   converged_param_type |-> "TRANSFORM_PROBABILITY",
   converged_param_transform_probability |-> 2,
   converged_param_nearest_voxel_transformation_likelihood |-> 2,
   lidar_topic_timeout_sec |-> 1,
   critical_upper_bound_exe_time_ms |-> 2,
   regularization_enabled |-> TRUE,
   thread |-> [diagnostic |-> "idle", main |-> "idle", initial_pose |-> "idle",
               regularization |-> "idle"],
   ndt_ptr_mtx |-> "free",
   initial_pose_array_mtx |-> "free",
   unconverged_run |-> 0]

InitNode == node = IdleNode

InitCall ==
  /\ call = <<>>
  /\ ret = <<>>

\* the state at the call of filterTargetObjects: the objects of this cycle and
\* a fresh AvoidancePlanningData
InitFilterWith(lists) ==
  /\ parameters \in ParameterSets
  /\ planner_data = [vehicle_width |-> 2]
  /\ now = 0
  /\ pc = "filter"
  /\ objects \in lists
  /\ data \in PlanningInputs
  /\ stopped_objects = <<>>
  /\ registered_objects = <<>>
  /\ InitHistory
  /\ InitLines
  /\ InitModule
  /\ InitNode
  /\ InitCall
  /\ InitMargin

InitFilter == InitFilterWith(ObjectLists(SmallObjects, MaxObjects))

InitFilterOne == InitFilterWith({<<o>> : o \in RichObjects})

FilterTargetObjects ==
  /\ pc = "filter"
  /\ LET r == filterTargetObjects(objects, data, parameters, planner_data, now)
     IN /\ objects' = r.objects
        /\ data' = [data EXCEPT !.target_objects = r.target_objects,
                                !.other_objects = r.other_objects]
        /\ pc' = IF r.thrown THEN "thrown" ELSE "filtered"
  /\ UNCHANGED <<node, parameters, planner_data, now, stopped_objects, registered_objects,
                 erased, prev_required, moving_since, stopped_at, stopped_since,
                 margin_in, margin_out, line_vars, module, call, ret>>

NextFilter == FilterTargetObjects

SpecFilter == InitFilter /\ [][NextFilter]_vars

SpecFilterOne == InitFilterOne /\ [][NextFilter]_vars

\* a second call on the same objects with the AvoidancePlanningData the first
\* call has filled
FilterAgain ==
  /\ pc = "filtered"
  /\ \E dt \in 0..1 :
       /\ now + dt <= MaxTime
       /\ now' = now + dt
       /\ LET r == filterTargetObjects(objects, data, parameters, planner_data, now + dt)
          IN /\ objects' = r.objects
             /\ data' = [data EXCEPT !.target_objects = r.target_objects,
                                     !.other_objects = r.other_objects]
  /\ pc' = "refiltered"
  /\ UNCHANGED <<node, parameters, planner_data, stopped_objects, registered_objects,
                 erased, prev_required, moving_since, stopped_at, stopped_since,
                 margin_in, margin_out, line_vars, module, call, ret>>

\* a second call on the same objects with a newly constructed
\* AvoidancePlanningData for the same lanelets and route position
FilterNextCycle ==
  /\ pc = "filtered"
  /\ \E dt \in 0..1 :
       /\ now + dt <= MaxTime
       /\ now' = now + dt
       /\ LET fresh == [data EXCEPT !.target_objects = <<>>, !.other_objects = <<>>]
              r == filterTargetObjects(objects, fresh, parameters, planner_data, now + dt)
          IN /\ objects' = r.objects
             /\ data' = [data EXCEPT !.target_objects = r.target_objects,
                                     !.other_objects = r.other_objects]
  /\ pc' = "next_cycle"
  /\ UNCHANGED <<node, parameters, planner_data, stopped_objects, registered_objects,
                 erased, prev_required, moving_since, stopped_at, stopped_since,
                 margin_in, margin_out, line_vars, module, call, ret>>

NextRerun == FilterTargetObjects \/ FilterAgain \/ FilterNextCycle

SpecRerun == InitFilter /\ [][NextRerun]_vars

-----------------------------------------------------------------------------
(* The avoid-margin selection on its own *)

MarginInputs ==
  [to_road_shoulder_distance : 0..MaxShoulder,
   distance_factor : 1..2,
   safety_buffer_lateral : 0..MaxMargin,
   avoid_margin_lateral : 0..1,
   soft_road_shoulder_margin : 0..MaxMargin,
   hard_road_shoulder_margin : 0..MaxMargin,
   vehicle_width : {2 * h : h \in 0..MaxHalfWidth}]

InitSelect ==
  /\ parameters = BaseParameters
  /\ planner_data = [vehicle_width |-> 2]
  /\ now = 0
  /\ pc = "select"
  /\ objects = <<>>
  /\ data = EmptyData
  /\ stopped_objects = <<>>
  /\ registered_objects = <<>>
  /\ InitHistory
  /\ InitLines
  /\ InitModule
  /\ InitNode
  /\ InitCall
  /\ margin_in \in MarginInputs
  /\ margin_out = NoMargin

SelectAvoidMargin ==
  /\ pc = "select"
  /\ margin_out' = AvoidMargin(margin_in.to_road_shoulder_distance,
                               margin_in.distance_factor,
                               [safety_buffer_lateral |-> margin_in.safety_buffer_lateral,
                                avoid_margin_lateral |-> margin_in.avoid_margin_lateral],
                               [soft_road_shoulder_margin |-> margin_in.soft_road_shoulder_margin,
                                hard_road_shoulder_margin |-> margin_in.hard_road_shoulder_margin],
                               margin_in.vehicle_width)
  /\ pc' = "selected"
  /\ UNCHANGED <<node, parameters, planner_data, now, objects, data, stopped_objects,
                 registered_objects, erased, prev_required, moving_since,
                 stopped_at, stopped_since, margin_in, line_vars, module, call, ret>>

NextMargin == SelectAvoidMargin

SpecMargin == InitSelect /\ [][NextMargin]_vars

-----------------------------------------------------------------------------
(* Claims about filterTargetObjects *)

\* the call has ended, by return or by the exception of the parameter lookup
Called == pc \in {"filtered", "thrown"} /\ data.current_lanelets # <<>>

Returned == pc = "filtered" /\ data.current_lanelets # <<>>

CountIn(list, id) == Cardinality({k \in 1..Len(list) : list[k].object_id = id})

InTarget(o) == \E k \in 1..Len(data.target_objects) : data.target_objects[k] = o

InOther(o) == \E k \in 1..Len(data.other_objects) : data.other_objects[k] = o

HasEntry(o) == o.label \in DOMAIN parameters.object_parameters

\* the reason the range criterion gives, from the envelope's arc lengths
ExpectedRangeReason(o) ==
  LET longitudinal == SetMin(o.envelope_arc)
      length == SetMax(o.envelope_arc) - longitudinal
      dist_to_goal == IF data.in_goal_route_section THEN data.arc_to_goal ELSE DoubleMax
  IN CASE longitudinal < -1 * parameters.object_check_backward_distance
            -> "OBJECT_IS_BEHIND_THRESHOLD"
       [] /\ longitudinal >= -1 * parameters.object_check_backward_distance
          /\ longitudinal > parameters.object_check_max_forward_distance
            -> "OBJECT_IS_IN_FRONT_THRESHOLD"
       [] /\ longitudinal >= -1 * parameters.object_check_backward_distance
          /\ longitudinal <= parameters.object_check_max_forward_distance
          /\ longitudinal > dist_to_goal
            -> "OBJECT_BEHIND_PATH_GOAL"
       [] /\ longitudinal >= -1 * parameters.object_check_backward_distance
          /\ longitudinal <= parameters.object_check_max_forward_distance
          /\ longitudinal <= dist_to_goal
          /\ 2 * longitudinal + length + 2 * parameters.object_check_goal_distance
               > 2 * dist_to_goal
            -> "TooNearToGoal"
       [] OTHER -> ""

PassesTypeAndMoving(o) ==
  /\ HasEntry(o)
  /\ parameters.object_parameters[o.label].is_target
  /\ o.move_time <= parameters.object_parameters[o.label].moving_time_threshold

\* the object passed criteria 1-3 and no closest lanelet was found for it
DroppedWithoutLanelet(o) ==
  /\ PassesTypeAndMoving(o)
  /\ ExpectedRangeReason(o) = ""
  /\ ~o.closest_lanelet_found

\* C1 as stated: after the call every input object is in exactly one of
\* target_objects and other_objects
C1_Original ==
  Returned =>
    \A i \in 1..Len(objects) :
      CountIn(data.target_objects, i) + CountIn(data.other_objects, i) = 1

\* C1 amended: no input object is in both lists or twice in one; an input
\* object is in neither list exactly when it passed criteria 1-3 and no closest
\* lanelet was found for it, or when it or an object before it has a type
\* without parameter entry (the lookup throws and ends the call); every other
\* input object is in exactly one list
C1_Partition ==
  Called =>
    /\ (pc = "thrown") <=> (\E i \in 1..Len(objects) : ~HasEntry(objects[i]))
    /\ \A i \in 1..Len(objects) :
         LET n == CountIn(data.target_objects, i) + CountIn(data.other_objects, i)
         IN IF \/ \E j \in 1..i : ~HasEntry(objects[j])
               \/ DroppedWithoutLanelet(objects[i])
              THEN n = 0
              ELSE n = 1
    /\ Len(data.target_objects) + Len(data.other_objects) <= Len(objects)

\* a dropped object next to a recorded one, after a normal return
C1_Witness ==
  /\ Returned
  /\ Len(objects) = 2
  /\ DroppedWithoutLanelet(objects[1])
  /\ CountIn(data.target_objects, 1) + CountIn(data.other_objects, 1) = 0
  /\ CountIn(data.target_objects, 2) = 1

\* the margin the specification selects for the given inputs
SelectedMargin(to_road_shoulder_distance, distance_factor, safety_buffer_lateral,
               avoid_margin_lateral, soft_margin, hard_margin, vehicle_width) ==
  LET max_avoid_margin == safety_buffer_lateral * distance_factor + avoid_margin_lateral
                          + vehicle_width \div 2
      min_avoid_margin == safety_buffer_lateral + vehicle_width \div 2
      soft_limit == to_road_shoulder_distance - soft_margin - vehicle_width \div 2
      hard_limit == to_road_shoulder_distance - hard_margin - vehicle_width \div 2
  IN CASE hard_limit < min_avoid_margin -> NoMargin
       [] hard_limit >= min_avoid_margin /\ soft_limit < min_avoid_margin
            -> <<min_avoid_margin>>
       [] OTHER -> IF soft_limit <= max_avoid_margin THEN <<soft_limit>>
                                                      ELSE <<max_avoid_margin>>

ObjectMargin(o) ==
  SelectedMargin(o.shoulder_distance, o.distance_factor,
                 parameters.object_parameters[o.label].safety_buffer_lateral,
                 parameters.object_parameters[o.label].avoid_margin_lateral,
                 parameters.soft_road_shoulder_margin,
                 parameters.hard_road_shoulder_margin,
                 planner_data.vehicle_width)

ReachesMargin(o) ==
  /\ PassesTypeAndMoving(o)
  /\ ExpectedRangeReason(o) = ""
  /\ o.closest_lanelet_found

\* C7: an object without derivable margin is never rejected as NotNeedAvoidance
\* or LessThanExecutionThreshold, it is decided by the later criteria, and every
\* target object carries the margin selected for it in this cycle
C7_MarginIsDataFlag ==
  Returned =>
    /\ \A i \in 1..Len(objects) :
         LET o == objects[i]
         IN (ReachesMargin(o) /\ ObjectMargin(o) = NoMargin) =>
              /\ o.reason \notin {"NotNeedAvoidance", "LessThanExecutionThreshold"}
              /\ \/ InTarget(o)
                 \/ /\ InOther(o)
                    /\ o.reason \in {"CrosswalkUser", "TOO_NEAR_TO_CENTERLINE",
                                     "NOT_PARKING_OBJECT"}
    /\ \A k \in 1..Len(data.target_objects) :
         /\ ReachesMargin(data.target_objects[k])
         /\ data.target_objects[k].avoid_margin = ObjectMargin(data.target_objects[k])

\* a target object without margin, and one with a margin
C7_Witness ==
  /\ Returned
  /\ \E k \in 1..Len(data.target_objects) :
       /\ data.target_objects[k].avoid_margin = NoMargin
       /\ ObjectMargin(data.target_objects[k]) = NoMargin
       /\ isVehicleTypeObject(data.target_objects[k])

\* C8: to_road_shoulder_distance below hard_road_shoulder_margin +
\* min_avoid_margin gives no avoid margin
C8_NoMarginBelowHardLimit ==
  (/\ pc = "selected"
   /\ margin_in.to_road_shoulder_distance <
        margin_in.hard_road_shoulder_margin + margin_in.safety_buffer_lateral
        + margin_in.vehicle_width \div 2)
    => margin_out = NoMargin

\* such a distance, one below the limit, with a nonzero vehicle width
C8_Witness ==
  /\ pc = "selected"
  /\ margin_in.vehicle_width > 0
  /\ margin_in.to_road_shoulder_distance + 1 =
       margin_in.hard_road_shoulder_margin + margin_in.safety_buffer_lateral
       + margin_in.vehicle_width \div 2
  /\ margin_out = NoMargin

\* the hard lateral distance limit of the inputs of the selection
HardLimit ==
  margin_in.to_road_shoulder_distance - margin_in.hard_road_shoulder_margin
  - margin_in.vehicle_width \div 2

\* C33: with soft_road_shoulder_margin >= hard_road_shoulder_margin, a derived
\* avoid margin is at least min_avoid_margin and at most the hard lateral
\* distance limit
C33_MarginBounds ==
  (/\ pc = "selected"
   /\ margin_in.soft_road_shoulder_margin >= margin_in.hard_road_shoulder_margin
   /\ margin_out # NoMargin)
    => /\ margin_out[1] >= margin_in.safety_buffer_lateral + margin_in.vehicle_width \div 2
       /\ margin_out[1] <= HardLimit

\* the road-shoulder margin is expanded: the soft limit is below min_avoid_margin,
\* the hard limit is not, and the margin lies strictly between the two limits
C33_Witness ==
  /\ pc = "selected"
  /\ margin_in.soft_road_shoulder_margin > margin_in.hard_road_shoulder_margin
  /\ margin_out # NoMargin
  /\ margin_out[1] < HardLimit
  /\ margin_out[1] > margin_in.to_road_shoulder_distance
                     - margin_in.soft_road_shoulder_margin - margin_in.vehicle_width \div 2

\* C9 as stated: every object whose type is no configured target type (no
\* entry, or is_target false) ends in other_objects as OBJECT_IS_NOT_TYPE
C9_Original ==
  Called =>
    \A i \in 1..Len(objects) :
      (~HasEntry(objects[i]) \/ ~parameters.object_parameters[objects[i].label].is_target)
        => /\ CountIn(data.other_objects, i) = 1
           /\ \A k \in 1..Len(data.other_objects) :
                data.other_objects[k].object_id = i
                  => data.other_objects[k].reason = "OBJECT_IS_NOT_TYPE"

RangeReasons ==
  {"OBJECT_IS_BEHIND_THRESHOLD", "OBJECT_IS_IN_FRONT_THRESHOLD",
   "OBJECT_BEHIND_PATH_GOAL", "TooNearToGoal"}

\* C10: an object that passes the type and moving checks is rejected by the
\* longitudinal range criterion iff one of its four conditions holds, with the
\* reason of the first that holds; outside the goal route section neither goal
\* reason occurs
C10_LongitudinalRange ==
  Returned =>
    \A i \in 1..Len(objects) :
      LET o == objects[i]
      IN PassesTypeAndMoving(o) =>
           /\ (InOther(o) /\ o.reason \in RangeReasons) <=> ExpectedRangeReason(o) # ""
           /\ ExpectedRangeReason(o) # "" => o.reason = ExpectedRangeReason(o)
           /\ ~data.in_goal_route_section =>
                o.reason \notin {"OBJECT_BEHIND_PATH_GOAL", "TooNearToGoal"}

\* an object rejected for its length reaching too near to the goal
C10_Witness ==
  /\ Returned
  /\ \E k \in 1..Len(data.other_objects) :
       /\ data.other_objects[k].reason = "TooNearToGoal"
       /\ data.other_objects[k].length > 0
       /\ data.other_objects[k].longitudinal + parameters.object_check_goal_distance
            <= data.arc_to_goal

\* pedestrians and bicycles
IsPedestrianOrBicycle(o) == o.label \in {"PEDESTRIAN", "BICYCLE"}

\* some conflicting crosswalk polygon is less than 2.0 m from the object
NearCrosswalk(o) == \E d \in o.crosswalk_distances : d < 2

\* the shift the object requires with the margin selected for it
RequiredShift(o) ==
  IF o.lateral < 0 THEN o.overhang_dist + ObjectMargin(o)[1]
                   ELSE o.overhang_dist - ObjectMargin(o)[1]

\* the required shift points to the side the object is on
ShiftTowardsObject(o) ==
  \/ o.lateral < 0 /\ RequiredShift(o) < 0
  \/ o.lateral >= 0 /\ RequiredShift(o) > 0

\* the object gets past the two shift-length rejections
PassesShiftChecks(o) ==
  \/ ObjectMargin(o) = NoMargin
  \/ /\ ~ShiftTowardsObject(o)
     /\ Abs(RequiredShift(o)) >= parameters.lateral_execution_threshold

\* the object reaches the check on non-vehicle types
ReachesTypeCheck(o) == ReachesMargin(o) /\ PassesShiftChecks(o)

\* C11: a pedestrian or bicycle within 2.0 m of a conflicting crosswalk is never
\* in target_objects, and when it reaches the non-vehicle check it is in
\* other_objects with reason CrosswalkUser
C11_CrosswalkUser ==
  Returned =>
    \A i \in 1..Len(objects) :
      LET o == objects[i]
      IN (IsPedestrianOrBicycle(o) /\ NearCrosswalk(o)) =>
           /\ CountIn(data.target_objects, o.object_id) = 0
           /\ ReachesTypeCheck(o) => (InOther(o) /\ o.reason = "CrosswalkUser")

\* a bicycle near one of two conflicting crosswalks, rejected as CrosswalkUser
C11_Witness ==
  /\ Returned
  /\ \E k \in 1..Len(data.other_objects) :
       /\ data.other_objects[k].label = "BICYCLE"
       /\ data.other_objects[k].crosswalk_distances = {1, 2}
       /\ data.other_objects[k].reason = "CrosswalkUser"

\* C12 (as stated): a pedestrian or bicycle that passes criteria 1-3 and is not
\* within 2.0 m of a crosswalk is in target_objects (here for the objects for
\* which a closest lanelet is found)
C12_Original ==
  Returned =>
    \A i \in 1..Len(objects) :
      LET o == objects[i]
      IN (/\ IsPedestrianOrBicycle(o)
          /\ PassesTypeAndMoving(o)
          /\ ExpectedRangeReason(o) = ""
          /\ o.closest_lanelet_found
          /\ ~NearCrosswalk(o)) => InTarget(o)

\* the object reaches the checks on vehicle types
ReachesVehicleChecks(o) ==
  /\ o.label \notin {"UNKNOWN", "PEDESTRIAN", "BICYCLE"}
  /\ ReachesTypeCheck(o)

ForceAvoidanceApplies(o) ==
  /\ parameters.enable_force_avoidance_for_stopped_vehicle
  /\ o.stop_time > parameters.threshold_time_force_avoidance_for_stopped_vehicle

\* distance from the object's nearest envelope point to the crosswalk
ToCrosswalk(o) == o.dist_to_crosswalk - SetMin(o.envelope_arc)

StoppedForTrafficLight(o) ==
  o.to_traffic_light < parameters.object_ignore_section_traffic_light_in_front_distance

StoppedForCrosswalk(o) ==
  /\ ToCrosswalk(o) < parameters.object_ignore_section_crosswalk_in_front_distance
  /\ ToCrosswalk(o) > -1 * parameters.object_ignore_section_crosswalk_behind_distance

ForceAvoided(o) ==
  /\ ForceAvoidanceApplies(o)
  /\ ~StoppedForTrafficLight(o)
  /\ ~StoppedForCrosswalk(o)

TooNearToCenterline(o) ==
  Abs(o.lateral) < parameters.threshold_distance_object_is_on_center

\* the lateral distance of the centroid towards the object's side is not more
\* than object_check_shiftable_ratio (tenths) of the shiftable distance
RatioNotGreater(o) ==
  LET towards_side == IF o.lateral < 0 THEN -1 * o.centroid_offset ELSE o.centroid_offset
      shiftable == o.to_boundary +
                   (IF o.sub_type_road_shoulder
                      THEN 0 ELSE parameters.object_check_min_road_shoulder_width)
  IN 10 * towards_side <= parameters.object_check_shiftable_ratio * shiftable

NotParkingObject(o) ==
  /\ o.is_in_ego_lane
  /\ \/ o.turn_direction \in {"right", "left", "straight"}
     \/ RatioNotGreater(o)

\* what the centerline and the parked-vehicle criterion decide
RemainingCriteria(o) ==
  IF TooNearToCenterline(o) THEN "TOO_NEAR_TO_CENTERLINE"
  ELSE IF NotParkingObject(o) THEN "NOT_PARKING_OBJECT"
  ELSE ""

\* C13: a vehicle that reaches the force-avoidance step with stop_time above the
\* threshold and the feature enabled is a target whatever the centerline and the
\* parked-vehicle criterion would say, unless it is stopped for a traffic light
\* or for a crosswalk; then these remaining criteria decide
C13_ForceAvoidance ==
  Returned =>
    \A i \in 1..Len(objects) :
      LET o == objects[i]
      IN (ReachesVehicleChecks(o) /\ ForceAvoidanceApplies(o)) =>
           IF ~StoppedForTrafficLight(o) /\ ~StoppedForCrosswalk(o)
             THEN InTarget(o)
             ELSE IF RemainingCriteria(o) = ""
                    THEN InTarget(o)
                    ELSE InOther(o) /\ o.reason = RemainingCriteria(o)

\* a force-avoided target that the centerline criterion would have rejected, with
\* the crosswalk just behind the window
C13_Witness ==
  /\ Returned
  /\ \E k \in 1..Len(data.target_objects) :
       LET o == data.target_objects[k]
       IN /\ ForceAvoided(o)
          /\ TooNearToCenterline(o)
          /\ ToCrosswalk(o) = -1 * parameters.object_ignore_section_crosswalk_behind_distance

\* C14: a vehicle that was not force-avoided and is not too near the centerline
\* is rejected as NOT_PARKING_OBJECT iff its centroid is inside the overhang
\* lanelet and the lanelet turns or goes straight at an intersection or the
\* shiftable ratio is not greater than object_check_shiftable_ratio; otherwise
\* it is a target
C14_ParkedVehicle ==
  Returned =>
    \A i \in 1..Len(objects) :
      LET o == objects[i]
      IN (ReachesVehicleChecks(o) /\ ~ForceAvoided(o) /\ ~TooNearToCenterline(o)) =>
           /\ (InOther(o) /\ o.reason = "NOT_PARKING_OBJECT") <=> NotParkingObject(o)
           /\ ~NotParkingObject(o) => InTarget(o)
           /\ ~o.is_in_ego_lane => (InTarget(o) /\ o.reason # "NOT_PARKING_OBJECT")

\* a vehicle on the right, inside the lanelet, that is a target because its
\* ratio is above the threshold
C14_Witness ==
  /\ Returned
  /\ \E k \in 1..Len(data.target_objects) :
       LET o == data.target_objects[k]
       IN /\ ReachesVehicleChecks(o)
          /\ ~ForceAvoided(o)
          /\ o.is_in_ego_lane
          /\ o.lateral < 0
          /\ o.shiftable_ratio > parameters.object_check_shiftable_ratio

\* the same members in the same order with the same reasons
SameMembers(a, b) ==
  /\ Len(a) = Len(b)
  /\ \A k \in 1..Len(a) : a[k].object_id = b[k].object_id /\ a[k].reason = b[k].reason

\* b is a followed by a second record of every member of a
Doubled(a, b) ==
  /\ Len(b) = 2 * Len(a)
  /\ SubSeq(b, 1, Len(a)) = a
  /\ SameMembers(a, SubSeq(b, Len(a) + 1, Len(b)))

\* C15 (as stated): a second run on the same objects and planning data leaves
\* the same members with the same reasons in target_objects and other_objects
C15_Original ==
  [][pc = "filtered" =>
       /\ SameMembers(data.target_objects, data'.target_objects)
       /\ SameMembers(data.other_objects, data'.other_objects)]_vars

\* C15 amended: a second run with a newly constructed planning data gives the
\* same members in the same order with the same reasons, the targets seen at the
\* time of the second run; a second run on the planning data the first run has
\* filled appends a second record of every member to both lists
C15_Rerun ==
  [][pc = "filtered" =>
       /\ pc' = "next_cycle" =>
            /\ SameMembers(data.target_objects, data'.target_objects)
            /\ SameMembers(data.other_objects, data'.other_objects)
            /\ \A k \in 1..Len(data'.target_objects) :
                 data'.target_objects[k].last_seen = now'
       /\ pc' = "refiltered" =>
            /\ Doubled(data.target_objects, data'.target_objects)
            /\ Doubled(data.other_objects, data'.other_objects)]_vars

\* a later second run with new planning data has found a target and a rejected object
C15_Witness ==
  /\ pc = "next_cycle"
  /\ now > 0
  /\ data.target_objects # <<>>
  /\ data.other_objects # <<>>

\* C19: for an object that reaches the shift-length checks with a margin, the
\* required shift is overhang_dist + avoid_margin on the right of the path and
\* overhang_dist - avoid_margin on the left; it is a target only when that value
\* is >= 0 on the right and <= 0 on the left, and exactly when the value points
\* to the object's own side the object is in other_objects as NotNeedAvoidance
C19_ShiftDirection ==
  Returned =>
    \A i \in 1..Len(objects) :
      LET o == objects[i]
      IN (ReachesMargin(o) /\ ObjectMargin(o) # NoMargin) =>
           /\ InTarget(o) => /\ o.lateral < 0 => o.overhang_dist + ObjectMargin(o)[1] >= 0
                             /\ o.lateral >= 0 => o.overhang_dist - ObjectMargin(o)[1] <= 0
           /\ ShiftTowardsObject(o) <=> (InOther(o) /\ o.reason = "NotNeedAvoidance")

\* an object on the left whose required shift is positive was rejected, and its
\* mirror image on the right would have been shifted for
C19_Witness ==
  /\ Returned
  /\ \E k \in 1..Len(data.other_objects) :
       LET o == data.other_objects[k]
       IN /\ o.lateral >= 0
          /\ ObjectMargin(o) # NoMargin
          /\ o.overhang_dist - ObjectMargin(o)[1] > 0
          /\ o.overhang_dist + ObjectMargin(o)[1] >= parameters.lateral_execution_threshold
          /\ o.reason = "NotNeedAvoidance"

\* the closest lanelet within the route is found for no object of the cycle
NoClosestLanelet ==
  \A i \in 1..Len(objects) : ~objects[i].closest_lanelet_found

-----------------------------------------------------------------------------
(* fillObjectMovingTime *)

\* std::find_if over an ObjectDataArray: index of the first entry with the id, 0 for end()
FindSameId(array, id) ==
  IF \E k \in 1..Len(array) : array[k].object_id = id
    THEN CHOOSE k \in 1..Len(array) :
           /\ array[k].object_id = id
           /\ \A j \in 1..(k - 1) : array[j].object_id # id
    ELSE 0

\* array.erase(array.begin() + (k - 1))
Erase(array, k) == SubSeq(array, 1, k - 1) \o SubSeq(array, k + 1, Len(array))

\* mutant: any observation above the speed threshold erases the record
fillObjectMovingTime_RestartsOnMove(object_data, stopped, p, t) ==
  LET object_parameter == p.object_parameters[object_data.label]
      is_faster_than_threshold == object_data.speed > object_parameter.moving_speed_threshold
      k == FindSameId(stopped, object_data.object_id)
      is_new_object == k = 0
  IN IF ~is_faster_than_threshold
       THEN LET o1 == [object_data EXCEPT !.last_stop = t, !.move_time = 0]
            IN IF is_new_object
                 THEN LET o2 == [o1 EXCEPT !.stop_time = 0, !.last_move = t]
                      IN [object |-> o2, stopped_objects |-> Append(stopped, o2)]
                 ELSE LET same == [stopped[k] EXCEPT !.stop_time = t - stopped[k].last_move,
                                                     !.last_stop = t, !.move_time = 0]
                      IN [object |-> [o1 EXCEPT !.stop_time = same.stop_time],
                          stopped_objects |-> [stopped EXCEPT ![k] = same]]
     ELSE IF is_new_object
       THEN [object |-> [object_data EXCEPT !.move_time = Infinity, !.stop_time = 0,
                                            !.last_move = t],
             stopped_objects |-> stopped]
     ELSE [object |-> [object_data EXCEPT !.last_stop = stopped[k].last_stop,
                                          !.move_time = t - stopped[k].last_stop,
                                          !.stop_time = 0],
           stopped_objects |-> Erase(stopped, k)]

\* mutant: an object seen for the first time, and moving, starts with move_time 0
fillObjectMovingTime_NewStartsAtZero(object_data, stopped, p, t) ==
  LET object_parameter == p.object_parameters[object_data.label]
      is_faster_than_threshold == object_data.speed > object_parameter.moving_speed_threshold
      k == FindSameId(stopped, object_data.object_id)
      is_new_object == k = 0
  IN IF ~is_faster_than_threshold
       THEN LET o1 == [object_data EXCEPT !.last_stop = t, !.move_time = 0]
            IN IF is_new_object
                 THEN LET o2 == [o1 EXCEPT !.stop_time = 0, !.last_move = t]
                      IN [object |-> o2, stopped_objects |-> Append(stopped, o2)]
                 ELSE LET same == [stopped[k] EXCEPT !.stop_time = t - stopped[k].last_move,
                                                     !.last_stop = t, !.move_time = 0]
                      IN [object |-> [o1 EXCEPT !.stop_time = same.stop_time],
                          stopped_objects |-> [stopped EXCEPT ![k] = same]]
     ELSE IF is_new_object
       THEN [object |-> [object_data EXCEPT !.move_time = 0, !.stop_time = 0,
                                            !.last_move = t],
             stopped_objects |-> stopped]
     ELSE LET o1 == [object_data EXCEPT !.last_stop = stopped[k].last_stop,
                                        !.move_time = t - stopped[k].last_stop,
                                        !.stop_time = 0]
          IN [object |-> o1,
              stopped_objects |-> IF o1.move_time > object_parameter.moving_time_threshold
                                    THEN Erase(stopped, k) ELSE stopped]

fillObjectMovingTime(object_data, stopped, p, t) ==
  LET object_parameter == p.object_parameters[object_data.label]
      is_faster_than_threshold == object_data.speed > object_parameter.moving_speed_threshold
      k == FindSameId(stopped, object_data.object_id)
      is_new_object == k = 0
  IN IF ~is_faster_than_threshold
       THEN LET o1 == [object_data EXCEPT !.last_stop = t, !.move_time = 0]
            IN IF is_new_object
                 THEN LET o2 == [o1 EXCEPT !.stop_time = 0, !.last_move = t]
                      IN [object |-> o2, stopped_objects |-> Append(stopped, o2)]
                 ELSE LET same == [stopped[k] EXCEPT !.stop_time = t - stopped[k].last_move,
                                                     !.last_stop = t, !.move_time = 0]
                      IN [object |-> [o1 EXCEPT !.stop_time = same.stop_time],
                          stopped_objects |-> [stopped EXCEPT ![k] = same]]
     ELSE IF is_new_object
       THEN [object |-> [object_data EXCEPT !.move_time = Infinity, !.stop_time = 0,
                                            !.last_move = t],
             stopped_objects |-> stopped]
     ELSE LET o1 == [object_data EXCEPT !.last_stop = stopped[k].last_stop,
                                        !.move_time = t - stopped[k].last_stop,
                                        !.stop_time = 0]
          IN [object |-> o1,
              stopped_objects |-> IF o1.move_time > object_parameter.moving_time_threshold
                                    THEN Erase(stopped, k) ELSE stopped]

\* the caller's loop: fillObjectMovingTime for every object of the cycle
RECURSIVE FillMovingTimeLoop(_, _, _, _, _)
FillMovingTimeLoop(objs, i, stopped, p, t) ==
  IF i > Len(objs) THEN [objects |-> objs, stopped_objects |-> stopped]
  ELSE LET r == fillObjectMovingTime(objs[i], stopped, p, t)
       IN FillMovingTimeLoop([objs EXCEPT ![i] = r.object], i + 1, r.stopped_objects, p, t)

ObjectIds == 1..MaxObjects

\* lists with increasing object ids: every id is absent or stands for one object of S
RECURSIVE SubLists(_, _)
SubLists(S, n) ==
  IF n = 0 THEN {<<>>}
  ELSE LET shorter == SubLists(S, n - 1)
       IN shorter \cup {Append(l, [o EXCEPT !.object_id = n]) : l \in shorter, o \in S}

HasId(array, id) == \E k \in 1..Len(array) : array[k].object_id = id

ObjectWithId(array, id) == array[FindSameId(array, id)]

\* perceived objects of the moving-time specification: standing or driving cars
MovingObjects == {[DefaultObject EXCEPT !.speed = v] : v \in {0, 2}}

CycleData == [EmptyData EXCEPT !.current_lanelets = <<1>>]

InitMoving ==
  /\ parameters = BaseParameters
  /\ planner_data = [vehicle_width |-> 2]
  /\ now = 0
  /\ pc = "idle"
  /\ objects = <<>>
  /\ data = CycleData
  /\ stopped_objects = <<>>
  /\ registered_objects = <<>>
  /\ erased = {}
  /\ prev_required = <<>>
  /\ moving_since = [id \in ObjectIds |-> -1]
  /\ stopped_at = [id \in ObjectIds |-> -1]
  /\ stopped_since = [id \in ObjectIds |-> -1]
  /\ InitMargin
  /\ InitLines
  /\ InitModule
  /\ InitNode
  /\ InitCall

\* a new planning cycle: the clock has advanced, perception delivers objects
ObserveMoving ==
  /\ pc \in {"idle", "filtered"}
  /\ \E dt \in 1..2 :
       /\ now + dt <= MaxTime
       /\ now' = now + dt
  /\ objects' \in SubLists(MovingObjects, MaxObjects)
  /\ data' = CycleData
  /\ pc' = "moving"
  /\ UNCHANGED <<node, parameters, planner_data, stopped_objects, registered_objects,
                 erased, prev_required, moving_since, stopped_at, stopped_since,
                 margin_in, margin_out, line_vars, module, call, ret>>

Faster(o) == o.speed > parameters.object_parameters[o.label].moving_speed_threshold

FillObjectMovingTime ==
  /\ pc = "moving"
  /\ LET r == FillMovingTimeLoop(objects, 1, stopped_objects, parameters, now)
     IN /\ objects' = r.objects
        /\ stopped_objects' = r.stopped_objects
  /\ moving_since' =
       [id \in ObjectIds |->
          IF HasId(objects, id) /\ Faster(ObjectWithId(objects, id))
            THEN IF moving_since[id] # -1 THEN moving_since[id] ELSE now
            ELSE -1]
  /\ stopped_at' =
       [id \in ObjectIds |->
          IF HasId(objects, id) /\ ~Faster(ObjectWithId(objects, id))
            THEN now
            ELSE stopped_at[id]]
  /\ stopped_since' =
       [id \in ObjectIds |->
          IF ~HasId(objects, id) THEN stopped_since[id]
          ELSE IF ~Faster(ObjectWithId(objects, id))
            THEN IF stopped_since[id] # -1 THEN stopped_since[id] ELSE now
          ELSE IF /\ stopped_since[id] # -1
                  /\ now - stopped_at[id]
                       > parameters.object_parameters[ObjectWithId(objects, id).label]
                           .moving_time_threshold
            THEN -1
          ELSE stopped_since[id]]
  /\ pc' = "filter"
  /\ UNCHANGED <<node, parameters, planner_data, now, data, registered_objects,
                 erased, prev_required, margin_in, margin_out, line_vars, module, call, ret>>

NextMoving == ObserveMoving \/ FillObjectMovingTime \/ FilterTargetObjects

SpecMoving == InitMoving /\ [][NextMoving]_vars

C30_Original ==
  /\ [](pc = "filter" =>
          \A i \in 1..Len(objects) :
            IF Faster(objects[i]) THEN objects[i].stop_time = 0
                                  ELSE objects[i].move_time = 0)
  /\ [][(pc = "moving" /\ pc' = "filter") =>
          \A i \in 1..Len(objects) :
            (~Faster(objects[i]) /\ moving_since[objects[i].object_id] # -1)
              => objects'[i].stop_time = 0]_vars

\* C30: move_time is 0 for an object observed at or below the speed
\* threshold and stop_time is 0 for one observed above it; the stop_time of an
\* object observed at or below the threshold is the time elapsed since the
\* first such observation that no movement longer than moving_time_threshold
\* (counted from the last observation at or below the threshold) has followed
C30_StopTimer ==
  pc = "filter" =>
    \A i \in 1..Len(objects) :
      LET o == objects[i]
      IN IF Faster(o) THEN o.stop_time = 0
         ELSE /\ o.move_time = 0
              /\ stopped_since[o.object_id] # -1
              /\ o.stop_time = now - stopped_since[o.object_id]

\* an object observed at or below the threshold whose record was made three
\* seconds ago, while another object is on a movement that has not yet
\* outlasted the time threshold and keeps its record
C30_Witness ==
  /\ pc = "filter"
  /\ \E i \in 1..Len(objects) :
       /\ ~Faster(objects[i])
       /\ moving_since[objects[i].object_id] = -1
       /\ objects[i].stop_time = 3
       /\ \E k \in 1..Len(stopped_objects) :
            /\ stopped_objects[k].object_id = objects[i].object_id
            /\ stopped_objects[k].last_move = now - 3
  /\ \E i \in 1..Len(objects) :
       /\ Faster(objects[i])
       /\ objects[i].stop_time = 0
       /\ stopped_since[objects[i].object_id] # -1
       /\ HasId(stopped_objects, objects[i].object_id)

-----------------------------------------------------------------------------
(* fillAvoidanceNecessity *)

\* check_necessity, with the hysteresis factor in tenths
CheckNecessity(object_data, safety_margin, hysteresis_factor) ==
  \/ /\ isOnRight(object_data)
     /\ 10 * Abs(object_data.overhang_dist) < safety_margin * hysteresis_factor
  \/ /\ ~isOnRight(object_data)
     /\ 10 * object_data.overhang_dist < safety_margin * hysteresis_factor

\* mutant: the expanded threshold is never used
fillAvoidanceNecessity_NoHysteresis(object_data, registered, vehicle_width, p) ==
  LET object_parameter == p.object_parameters[object_data.label]
      safety_margin == Half(vehicle_width) +
                       object_parameter.safety_buffer_lateral * object_data.distance_factor
  IN [object_data EXCEPT !.avoid_required = CheckNecessity(object_data, safety_margin, 10)]

fillAvoidanceNecessity(object_data, registered, vehicle_width, p) ==
  LET object_parameter == p.object_parameters[object_data.label]
      safety_margin == Half(vehicle_width) +
                       object_parameter.safety_buffer_lateral * object_data.distance_factor
      k == FindSameId(registered, object_data.object_id)
  IN IF k = 0
       THEN [object_data EXCEPT !.avoid_required =
                                  CheckNecessity(object_data, safety_margin, 10)]
     ELSE IF ~registered[k].avoid_required
       THEN [object_data EXCEPT !.avoid_required =
                                  CheckNecessity(object_data, safety_margin, 10)]
     ELSE [object_data EXCEPT !.avoid_required =
                                CheckNecessity(object_data, safety_margin,
                                               p.hysteresis_factor_expand_rate)]

-----------------------------------------------------------------------------
(* updateRegisteredObject *)

\* calcDistance2d of two poses on the line of positions (half metres)
calcDistance2d(a, b) == Abs(a.position - b.position)

\* std::find_if with the position predicate: index in now_objects, 0 for end()
FindSimilarPos(now_objects, r) ==
  IF \E k \in 1..Len(now_objects) : calcDistance2d(r, now_objects[k]) < POS_THR
    THEN CHOOSE k \in 1..Len(now_objects) :
           /\ calcDistance2d(r, now_objects[k]) < POS_THR
           /\ \A j \in 1..(k - 1) : ~(calcDistance2d(r, now_objects[j]) < POS_THR)
    ELSE 0

\* the lambda updateIfDetectedNow: the new value of the entry and the returned flag
updateIfDetectedNow(registered_object, now_objects) ==
  LET same == FindSameId(now_objects, registered_object.object_id)
      similar == FindSimilarPos(now_objects, registered_object)
  IN IF same # 0 THEN [detected |-> TRUE, object |-> now_objects[same]]
     ELSE IF similar # 0 THEN [detected |-> TRUE, object |-> now_objects[similar]]
     ELSE [detected |-> FALSE, object |-> registered_object]

\* the body of the first loop up to the erase: the entry with its new lost_time
CheckRegistered(r, now_objects, t) ==
  LET u == updateIfDetectedNow(r, now_objects)
  IN IF ~u.detected
       THEN [u.object EXCEPT !.lost_time = t - r.last_seen]
       ELSE [u.object EXCEPT !.last_seen = t, !.lost_time = 0]

\* mutant: an entry is erased as soon as lost_time reaches the threshold
IsLost_AtThreshold(r, p) == r.lost_time >= p.object_last_seen_threshold

IsLost(r, p) == r.lost_time > p.object_last_seen_threshold

\* the first loop, from the last entry to the first, erasing the lost entries
RECURSIVE PurgeLoop(_, _, _, _, _)
PurgeLoop(registered, i, now_objects, p, t) ==
  IF i < 1 THEN registered
  ELSE LET r == CheckRegistered(registered[i], now_objects, t)
           updated == [registered EXCEPT ![i] = r]
       IN PurgeLoop(IF IsLost(r, p) THEN Erase(updated, i) ELSE updated,
                    i - 1, now_objects, p, t)

\* the second loop: push the now objects whose id is not registered
RECURSIVE RegisterLoop(_, _, _)
RegisterLoop(registered, now_objects, k) ==
  IF k > Len(now_objects) THEN registered
  ELSE RegisterLoop(IF ~HasId(registered, now_objects[k].object_id)
                      THEN Append(registered, now_objects[k])
                      ELSE registered,
                    now_objects, k + 1)

\* ids of the entries the first loop erases
ErasedIds(registered, now_objects, p, t) ==
  {registered[i].object_id :
     i \in {j \in 1..Len(registered) :
              IsLost(CheckRegistered(registered[j], now_objects, t), p)}}

updateRegisteredObject(registered, now_objects, p, t) ==
  RegisterLoop(PurgeLoop(registered, Len(registered), now_objects, p, t), now_objects, 1)

-----------------------------------------------------------------------------
(* The registered-objects specification: every cycle decides avoid_required  *)
(* for the target objects and then updates the registry with them            *)

\* target objects of the necessity specification, all closer to each other than
\* POS_THR: an overhang below both thresholds and one above both on the right, and
\* one between the two thresholds on the left
NecessityObjects ==
  {[DefaultObject EXCEPT !.overhang_dist = ov] : ov \in {-1, -5}}
  \cup {[DefaultObject EXCEPT !.lateral = 1, !.overhang_dist = 3]}

\* target objects of the registry specification: at the same place, or exactly
\* POS_THR apart
RegistryObjects == {[DefaultObject EXCEPT !.position = x] : x \in {0, POS_THR}}

InitRegistry ==
  /\ parameters = BaseParameters
  /\ planner_data = [vehicle_width |-> 2]
  /\ now = 0
  /\ pc = "idle"
  /\ objects = <<>>
  /\ data = CycleData
  /\ stopped_objects = <<>>
  /\ registered_objects = <<>>
  /\ erased = {}
  /\ prev_required = <<>>
  /\ moving_since = <<>>
  /\ stopped_at = <<>>
  /\ stopped_since = <<>>
  /\ InitMargin
  /\ InitLines
  /\ InitModule
  /\ InitNode
  /\ InitCall

\* a new cycle: the clock has advanced and the filter has produced the target
\* objects, each with last_seen = now
ObserveTargets(S, steps) ==
  /\ pc \in {"idle", "updated"}
  /\ \E dt \in steps :
       /\ now + dt <= MaxTime
       /\ now' = now + dt
       /\ \E l \in SubLists(S, MaxObjects) :
            data' = [CycleData EXCEPT !.target_objects =
                       [k \in 1..Len(l) |-> [l[k] EXCEPT !.last_seen = now + dt]]]
  /\ pc' = "necessity"
  /\ erased' = {}
  /\ UNCHANGED <<node, parameters, planner_data, objects, stopped_objects, registered_objects,
                 prev_required, moving_since, stopped_at, stopped_since, margin_in, margin_out, line_vars, module, call, ret>>

ObserveOverhangs == ObserveTargets(NecessityObjects, {1})

ObservePositions == ObserveTargets(RegistryObjects, 1..2)

FillAvoidanceNecessity ==
  /\ pc = "necessity"
  /\ data' = [data EXCEPT !.target_objects =
                [k \in 1..Len(data.target_objects) |->
                   fillAvoidanceNecessity(data.target_objects[k], registered_objects,
                                          planner_data.vehicle_width, parameters)]]
  /\ pc' = "update"
  /\ UNCHANGED <<node, parameters, planner_data, now, objects, stopped_objects,
                 registered_objects, erased, prev_required, moving_since,
                 stopped_at, stopped_since, margin_in, margin_out, line_vars, module, call, ret>>

UpdateRegisteredObject ==
  /\ pc = "update"
  /\ registered_objects' =
       updateRegisteredObject(registered_objects, data.target_objects, parameters, now)
  /\ erased' = ErasedIds(registered_objects, data.target_objects, parameters, now)
  /\ prev_required' =
       [id \in {data.target_objects[k].object_id : k \in 1..Len(data.target_objects)} |->
          ObjectWithId(data.target_objects, id).avoid_required]
  /\ pc' = "updated"
  /\ UNCHANGED <<node, parameters, planner_data, now, objects, data, stopped_objects,
                 moving_since, stopped_at, stopped_since, margin_in, margin_out, line_vars, module, call, ret>>

NextNecessity == ObserveOverhangs \/ FillAvoidanceNecessity \/ UpdateRegisteredObject

SpecNecessity == InitRegistry /\ [][NextNecessity]_vars

NextRegistry == ObservePositions \/ FillAvoidanceNecessity \/ UpdateRegisteredObject

SpecRegistry == InitRegistry /\ [][NextRegistry]_vars

-----------------------------------------------------------------------------
(* Claims on fillAvoidanceNecessity and updateRegisteredObject *)

\* the quantity fillAvoidanceNecessity compares with the threshold, in tenths
Measure(o) == IF isOnRight(o) THEN 10 * Abs(o.overhang_dist) ELSE 10 * o.overhang_dist

SafetyMargin(o) ==
  Half(planner_data.vehicle_width) +
  parameters.object_parameters[o.label].safety_buffer_lateral * o.distance_factor

Unexpanded(o) == 10 * SafetyMargin(o)

Expanded(o) == SafetyMargin(o) * parameters.hysteresis_factor_expand_rate

RecordSaysRequired(o) ==
  \E k \in 1..Len(registered_objects) :
    /\ registered_objects[k].object_id = o.object_id
    /\ \A j \in 1..(k - 1) : registered_objects[j].object_id # o.object_id
    /\ registered_objects[k].avoid_required

Between(o) == Unexpanded(o) <= Measure(o) /\ Measure(o) < Expanded(o)

\* C2: once fillAvoidanceNecessity has decided the flags of a cycle, an object whose
\* first registered record with its id says avoid_required has the flag exactly when
\* its overhang is below safety_margin * hysteresis_factor_expand_rate; an object
\* without a record, or whose record says false, has it exactly when the overhang is
\* below safety_margin; and an object that was a target in the previous cycle too and
\* whose overhang is now between the two thresholds keeps the flag of that cycle
C2_Hysteresis ==
  pc = "update" =>
    \A k \in 1..Len(data.target_objects) :
      LET o == data.target_objects[k]
      IN /\ RecordSaysRequired(o) => (o.avoid_required <=> Measure(o) < Expanded(o))
         /\ ~RecordSaysRequired(o) => (o.avoid_required <=> Measure(o) < Unexpanded(o))
         /\ (o.object_id \in DOMAIN prev_required /\ Between(o)) =>
              o.avoid_required = prev_required[o.object_id]

\* an object between the thresholds keeps a true flag, next to one that is false
\* between the thresholds because it has no true record
C2_Witness ==
  /\ pc = "update"
  /\ \E k \in 1..Len(data.target_objects) :
       LET o == data.target_objects[k]
       IN /\ Between(o)
          /\ RecordSaysRequired(o)
          /\ o.object_id \in DOMAIN prev_required
          /\ prev_required[o.object_id]
          /\ o.avoid_required
  /\ \E k \in 1..Len(data.target_objects) :
       LET o == data.target_objects[k]
       IN Between(o) /\ ~RecordSaysRequired(o) /\ ~o.avoid_required

\* C3 (as stated): no two entries of registered_objects have the same object id
C3_Original ==
  \A i, j \in 1..Len(registered_objects) :
    registered_objects[i].object_id = registered_objects[j].object_id => i = j

Matched(r, now_objects) ==
  \E k \in 1..Len(now_objects) :
    \/ now_objects[k].object_id = r.object_id
    \/ calcDistance2d(r, now_objects[k]) < POS_THR

Kept(r, now_objects) ==
  \/ Matched(r, now_objects)
  \/ now - r.last_seen <= parameters.object_last_seen_threshold

KeptUpTo(i) ==
  Cardinality({j \in 1..i : Kept(registered_objects[j], data.target_objects)})

\* C4: an update keeps, in their order, exactly the entries that are matched in
\* now_objects or whose now - last_seen is at most object_last_seen_threshold; a
\* matched entry gets last_seen = now and lost_time = 0, an unmatched one keeps its
\* content with lost_time = now - last_seen; whatever follows them is a now object.
\* So after every update each entry has lost_time = now - last_seen, and this is
\* never more than the threshold
C4_PurgeOfLost ==
  /\ [](pc = "updated" =>
          \A i \in 1..Len(registered_objects) :
            /\ registered_objects[i].lost_time = now - registered_objects[i].last_seen
            /\ registered_objects[i].lost_time <= parameters.object_last_seen_threshold)
  /\ [][pc = "update" =>
          LET n == Len(registered_objects)
          IN /\ Len(registered_objects') >= KeptUpTo(n)
             /\ \A i \in 1..n :
                  LET r == registered_objects[i]
                      after == registered_objects'[KeptUpTo(i)]
                  IN Kept(r, data.target_objects) =>
                       IF Matched(r, data.target_objects)
                         THEN after.last_seen = now /\ after.lost_time = 0
                         ELSE after = [r EXCEPT !.lost_time = now - r.last_seen]
             /\ \A j \in (KeptUpTo(n) + 1)..Len(registered_objects') :
                  \E k \in 1..Len(data.target_objects) :
                    registered_objects'[j] = data.target_objects[k]]_vars

\* an update has erased an entry and kept another whose lost_time is the threshold
C4_Witness ==
  /\ pc = "updated"
  /\ erased # {}
  /\ \E i \in 1..Len(registered_objects) :
       registered_objects[i].lost_time = parameters.object_last_seen_threshold

-----------------------------------------------------------------------------
(* fillObjectEnvelopePolygon *)

Max2(a, b) == IF a > b THEN a ELSE b

Area(b) == (b.x2 - b.x1) * (b.y2 - b.y1)

\* boost::geometry::within(a, b) for rectangles
Within(a, b) == b.x1 <= a.x1 /\ a.x2 <= b.x2 /\ b.y1 <= a.y1 /\ a.y2 <= b.y2

\* bg::return_envelope<Box>: the bounding box of a polygon given as a set of rectangles
ReturnEnvelope(polygon) ==
  [x1 |-> SetMin({b.x1 : b \in polygon}), x2 |-> SetMax({b.x2 : b \in polygon}),
   y1 |-> SetMin({b.y1 : b \in polygon}), y2 |-> SetMax({b.y2 : b \in polygon})]

\* expandPolygon: every side moves out by the buffer
expandPolygon(b, buffer) ==
  [x1 |-> b.x1 - buffer, x2 |-> b.x2 + buffer, y1 |-> b.y1 - buffer, y2 |-> b.y2 + buffer]

\* the bounding box of the polygon in the frame of closest_pose, expanded
createEnvelopePolygon(polygon, envelope_buffer) ==
  expandPolygon(ReturnEnvelope(polygon), envelope_buffer)

\* the rectangles overlap or share part of an edge: their union is one polygon
Connected(a, b) ==
  LET ox == Min2(a.x2, b.x2) - Max2(a.x1, b.x1)
      oy == Min2(a.y2, b.y2) - Max2(a.y1, b.y1)
  IN ox >= 0 /\ oy >= 0 /\ ox + oy > 0

\* boost::geometry::union_(a, b, unions): one polygon when the two are connected,
\* else both, in the order the library emits them
union_(a, b, order) ==
  IF Connected(a, b) THEN <<{a, b}>>
  ELSE IF order = 1 THEN <<{a}, {b}>> ELSE <<{b}, {a}>>

\* mutant: the registered envelope is dropped unless the new one lies within it
fillObjectEnvelopePolygon_NoUnion(object_data, registered, p, order) ==
  LET object_parameter == p.object_parameters[object_data.label]
      envelope_buffer_margin ==
        object_parameter.envelope_buffer_margin * object_data.distance_factor
      k == FindSameId(registered, object_data.object_id)
      envelope_poly == createEnvelopePolygon({object_data.footprint}, envelope_buffer_margin)
  IN IF k = 0 THEN [object_data EXCEPT !.envelope_poly = envelope_poly]
     ELSE IF Within(envelope_poly, registered[k].envelope_poly)
       THEN [object_data EXCEPT !.envelope_poly = registered[k].envelope_poly]
     ELSE [object_data EXCEPT !.envelope_poly = envelope_poly]

fillObjectEnvelopePolygon(object_data, registered, p, order) ==
  LET object_parameter == p.object_parameters[object_data.label]
      envelope_buffer_margin ==
        object_parameter.envelope_buffer_margin * object_data.distance_factor
      k == FindSameId(registered, object_data.object_id)
      envelope_poly == createEnvelopePolygon({object_data.footprint}, envelope_buffer_margin)
  IN IF k = 0 THEN [object_data EXCEPT !.envelope_poly = envelope_poly]
     ELSE IF Within(envelope_poly, registered[k].envelope_poly)
       THEN [object_data EXCEPT !.envelope_poly = registered[k].envelope_poly]
     ELSE LET unions == union_(envelope_poly, registered[k].envelope_poly, order)
          IN IF unions = <<>>
               THEN [object_data EXCEPT !.envelope_poly = envelope_poly]
               ELSE [object_data EXCEPT !.envelope_poly =
                                          createEnvelopePolygon(unions[1], 0)]

\* object polygons of the envelope specification
Footprints ==
  {[x1 |-> a, x2 |-> b, y1 |-> c[1], y2 |-> c[2]] :
     a \in 0..MaxGrid, b \in 0..MaxGrid, c \in {<<0, 1>>, <<0, 2>>, <<1, 2>>}}

EnvelopeObjects ==
  {[DefaultObject EXCEPT !.footprint = f] : f \in {g \in Footprints : g.x1 < g.x2}}

\* a new cycle: the clock has advanced and perception delivers the object, or nothing
ObserveFootprint ==
  /\ pc \in {"idle", "updated"}
  /\ \E dt \in 1..2 :
       /\ now + dt <= MaxTime
       /\ now' = now + dt
       /\ \E l \in SubLists(EnvelopeObjects, 1) :
            objects' = [k \in 1..Len(l) |-> [l[k] EXCEPT !.last_seen = now + dt]]
  /\ data' = CycleData
  /\ pc' = "envelope"
  /\ erased' = {}
  /\ UNCHANGED <<node, parameters, planner_data, stopped_objects, registered_objects,
                 prev_required, moving_since, stopped_at, stopped_since, margin_in, margin_out, line_vars, module, call, ret>>

\* the envelope of every object is filled; the objects are the targets of the cycle
FillObjectEnvelopePolygon ==
  /\ pc = "envelope"
  /\ \E order \in 1..2 :
       data' = [data EXCEPT !.target_objects =
                  [k \in 1..Len(objects) |->
                     fillObjectEnvelopePolygon(objects[k], registered_objects,
                                               parameters, order)]]
  /\ pc' = "update"
  /\ UNCHANGED <<node, parameters, planner_data, now, objects, stopped_objects,
                 registered_objects, erased, prev_required, moving_since,
                 stopped_at, stopped_since, margin_in, margin_out, line_vars, module, call, ret>>

NextEnvelope == ObserveFootprint \/ FillObjectEnvelopePolygon \/ UpdateRegisteredObject

SpecEnvelope == InitRegistry /\ [][NextEnvelope]_vars

-----------------------------------------------------------------------------
(* Claims on fillObjectEnvelopePolygon *)

\* the first registered record with the id of the object
Record(o) == registered_objects[FindSameId(registered_objects, o.object_id)]

HasRecord(o) == \E k \in 1..Len(registered_objects) :
                  registered_objects[k].object_id = o.object_id

\* the envelope of the object polygon alone
RawEnvelope(o) ==
  [x1 |-> o.footprint.x1 - parameters.object_parameters[o.label].envelope_buffer_margin
                             * o.distance_factor,
   x2 |-> o.footprint.x2 + parameters.object_parameters[o.label].envelope_buffer_margin
                             * o.distance_factor,
   y1 |-> o.footprint.y1 - parameters.object_parameters[o.label].envelope_buffer_margin
                             * o.distance_factor,
   y2 |-> o.footprint.y2 + parameters.object_parameters[o.label].envelope_buffer_margin
                             * o.distance_factor]

Contains(outer, inner) ==
  /\ outer.x1 <= inner.x1 /\ inner.x2 <= outer.x2
  /\ outer.y1 <= inner.y1 /\ inner.y2 <= outer.y2

\* the two rectangles have no point in common, or only a corner
Apart(a, b) ==
  \/ a.x2 < b.x1 \/ b.x2 < a.x1 \/ a.y2 < b.y1 \/ b.y2 < a.y1
  \/ /\ (a.x2 = b.x1 \/ b.x2 = a.x1)
     /\ (a.y2 = b.y1 \/ b.y2 = a.y1)

\* C16 (as stated): the envelope of an object with a registered record contains
\* the registered envelope, and its area is not smaller
C16_Original ==
  pc = "update" =>
    \A k \in 1..Len(data.target_objects) :
      LET o == data.target_objects[k]
      IN HasRecord(o) =>
           /\ Contains(o.envelope_poly, Record(o).envelope_poly)
           /\ Area(o.envelope_poly) >= Area(Record(o).envelope_poly)

\* C16 amended: when the envelope of the object polygon and the registered
\* envelope overlap or share part of an edge, the new envelope contains both and
\* its area is not smaller than the registered one; when they are apart, the new
\* envelope contains one of the two
C16_EnvelopeGrowth ==
  pc = "update" =>
    \A k \in 1..Len(data.target_objects) :
      LET o == data.target_objects[k]
      IN HasRecord(o) =>
           IF Apart(RawEnvelope(o), Record(o).envelope_poly)
             THEN \/ Contains(o.envelope_poly, RawEnvelope(o))
                  \/ Contains(o.envelope_poly, Record(o).envelope_poly)
             ELSE /\ Contains(o.envelope_poly, Record(o).envelope_poly)
                  /\ Contains(o.envelope_poly, RawEnvelope(o))
                  /\ Area(o.envelope_poly) >= Area(Record(o).envelope_poly)

\* the envelope has grown beyond both the registered envelope and the new one
C16_Witness ==
  /\ pc = "update"
  /\ \E k \in 1..Len(data.target_objects) :
       LET o == data.target_objects[k]
       IN /\ HasRecord(o)
          /\ ~Apart(RawEnvelope(o), Record(o).envelope_poly)
          /\ Area(o.envelope_poly) > Area(Record(o).envelope_poly)
          /\ Area(o.envelope_poly) > Area(RawEnvelope(o))
          /\ Record(o).envelope_poly # RawEnvelope(Record(o))

-----------------------------------------------------------------------------
(* combineRawShiftLinesWithUniqueCheck *)

\* AvoidLine.  Poses are points of the line of positions (half metres), shift
\* lengths are in half metres, longitudinal values in path points.
DefaultLine ==
  [object_id |-> 1,
   start |-> [position |-> 0], end |-> [position |-> 8],
   start_idx |-> 0, end_idx |-> 0,
   start_longitudinal |-> 0, end_longitudinal |-> 0,
   start_shift_length |-> 0, end_shift_length |-> 0]

SIMILAR_POSE_THR == 2      \* 1.0 m
SIMILAR_SHIFT_THR == 1     \* 0.5 m

isSimilar(a, b) ==
  IF calcDistance2d(a.start, b.start) > SIMILAR_POSE_THR THEN FALSE
  ELSE IF calcDistance2d(a.end, b.end) > SIMILAR_POSE_THR THEN FALSE
  ELSE IF Abs(a.end_shift_length - b.end_shift_length) > SIMILAR_SHIFT_THR THEN FALSE
  ELSE TRUE

hasSameObjectId(a, b) == a.object_id = b.object_id

RECURSIVE SkipLoop(_, _, _)
\* the inner loop: some base line from index k on has the id of the added line
\* and is similar to it
SkipLoop(added_line, base, k) ==
  IF k > Len(base) THEN FALSE
  ELSE IF hasSameObjectId(added_line, base[k]) /\ isSimilar(added_line, base[k]) THEN TRUE
  ELSE SkipLoop(added_line, base, k + 1)

RECURSIVE CombineLoop(_, _, _, _)
\* the outer loop from index k of added on
CombineLoop(combined, base, added, k) ==
  IF k > Len(added) THEN combined
  ELSE CombineLoop(IF ~SkipLoop(added[k], base, 1)
                     THEN Append(combined, added[k])
                     ELSE combined,
                   base, added, k + 1)

RECURSIVE combineRawShiftLinesWithUniqueCheck_AgainstCombined(_, _)
\* mutant: an added line is compared with the lines combined so far
combineRawShiftLinesWithUniqueCheck_AgainstCombined(base, added) ==
  IF added = <<>> THEN base
  ELSE combineRawShiftLinesWithUniqueCheck_AgainstCombined(
         IF ~SkipLoop(added[1], base, 1) THEN Append(base, added[1]) ELSE base,
         Tail(added))

combineRawShiftLinesWithUniqueCheck(base, added) == CombineLoop(base, base, added, 1)

\* shift lines of the combining specification: pairs at the tolerances, beyond
\* them, and of another object
LineInputs ==
  {[DefaultLine EXCEPT !.object_id = v[1], !.start = [position |-> v[2]],
                       !.end = [position |-> v[3]], !.end_shift_length = v[4]] :
     v \in {<<1, 0, 8, 0>>, <<1, 2, 8, 1>>, <<1, 3, 8, 0>>,
            <<1, 0, 11, 2>>, <<2, 0, 8, 0>>, <<2, 2, 10, 1>>}}

LineArrays ==
  UNION {[1..n -> LineInputs] : n \in 0..MaxLines}

InitCombine ==
  /\ parameters = BaseParameters
  /\ planner_data = [vehicle_width |-> 2]
  /\ now = 0
  /\ pc = "combine"
  /\ objects = <<>>
  /\ data = EmptyData
  /\ stopped_objects = <<>>
  /\ registered_objects = <<>>
  /\ InitHistory
  /\ InitMargin
  /\ base_lines \in LineArrays
  /\ added_lines \in LineArrays
  /\ lines = <<>>
  /\ InitModule
  /\ InitNode
  /\ InitCall

Combine ==
  /\ pc = "combine"
  /\ lines' = combineRawShiftLinesWithUniqueCheck(base_lines, added_lines)
  /\ pc' = "combined"
  /\ UNCHANGED <<node, parameters, planner_data, now, objects, data, stopped_objects,
                 registered_objects, erased, prev_required, moving_since,
                 stopped_at, stopped_since, margin_in, margin_out, base_lines, added_lines, module, call, ret>>

\* the result is combined with the same added lines once more
CombineAgain ==
  /\ pc = "combined"
  /\ lines' = combineRawShiftLinesWithUniqueCheck(lines, added_lines)
  /\ pc' = "recombined"
  /\ UNCHANGED <<node, parameters, planner_data, now, objects, data, stopped_objects,
                 registered_objects, erased, prev_required, moving_since,
                 stopped_at, stopped_since, margin_in, margin_out, base_lines, added_lines, module, call, ret>>

NextCombine == Combine \/ CombineAgain

SpecCombine == InitCombine /\ [][NextCombine]_vars

-----------------------------------------------------------------------------
(* Claims on combineRawShiftLinesWithUniqueCheck *)

\* some base line has the object id of the line, a start pose and an end pose
\* within 1.0 m of its poses and an end shift length within 0.5 m of its own
HasDuplicateIn(line, base) ==
  \E k \in 1..Len(base) :
    /\ base[k].object_id = line.object_id
    /\ Abs(base[k].start.position - line.start.position) <= 2
    /\ Abs(base[k].end.position - line.end.position) <= 2
    /\ Abs(base[k].end_shift_length - line.end_shift_length) <= 1

IsUnique(line) == ~HasDuplicateIn(line, base_lines)

\* C17: the result is the base lines in their order followed by exactly the
\* added lines, in their order, that have no duplicate among the base lines;
\* combining the result with the same added lines again appends nothing
C17_UniqueCombine ==
  /\ pc = "combined" => lines = base_lines \o SelectSeq(added_lines, IsUnique)
  /\ pc = "recombined" => lines = base_lines \o SelectSeq(added_lines, IsUnique)

\* an added line was dropped as a duplicate of a base line that differs from
\* it, another was appended, and the second combination has run
C17_Witness ==
  /\ pc = "recombined"
  /\ \E k \in 1..Len(added_lines) :
       /\ HasDuplicateIn(added_lines[k], base_lines)
       /\ \A b \in 1..Len(base_lines) : base_lines[b] # added_lines[k]
  /\ \E k \in 1..Len(added_lines) : ~HasDuplicateIn(added_lines[k], base_lines)
  /\ Len(lines) = Len(base_lines) + 1


-----------------------------------------------------------------------------
(* setStartData, setEndData, fillAdditionalInfoFromPoint *)

setEndData(ap, length, end, end_idx, end_dist) ==
  [ap EXCEPT !.end_shift_length = length, !.end = end, !.end_idx = end_idx,
             !.end_longitudinal = end_dist]

setStartData(ap, start_shift_length, start, start_idx, start_dist) ==
  [ap EXCEPT !.start_shift_length = start_shift_length, !.start = start,
             !.start_idx = start_idx, !.start_longitudinal = start_dist]

\* motion_utils::findNearestIndex: the index (from 0) of the first of the
\* points with the smallest distance to the position
findNearestIndex(points, position) ==
  CHOOSE i \in 0..(Len(points) - 1) :
    /\ \A j \in 0..(Len(points) - 1) :
         Abs(points[i + 1] - position) <= Abs(points[j + 1] - position)
    /\ \A j \in 0..(i - 1) :
         Abs(points[j + 1] - position) > Abs(points[i + 1] - position)

\* mutant: the start fields are read at the end pose and the end fields at the
\* start pose
fillAdditionalInfoFromPoint_Swapped(d, ls) ==
  IF ls = <<>> THEN ls
  ELSE [k \in 1..Len(ls) |->
          LET start_idx == findNearestIndex(d.reference_path, ls[k].end.position)
              end_idx == findNearestIndex(d.reference_path, ls[k].start.position)
          IN [ls[k] EXCEPT !.start_idx = start_idx,
                           !.start_longitudinal = d.arclength_from_ego[start_idx + 1],
                           !.end_idx = end_idx,
                           !.end_longitudinal = d.arclength_from_ego[end_idx + 1]]]

fillAdditionalInfoFromPoint(d, ls) ==
  IF ls = <<>> THEN ls
  ELSE [k \in 1..Len(ls) |->
          LET start_idx == findNearestIndex(d.reference_path, ls[k].start.position)
              end_idx == findNearestIndex(d.reference_path, ls[k].end.position)
          IN [ls[k] EXCEPT !.start_idx = start_idx,
                           !.start_longitudinal = d.arclength_from_ego[start_idx + 1],
                           !.end_idx = end_idx,
                           !.end_longitudinal = d.arclength_from_ego[end_idx + 1]]]

\* reference paths: MaxPoints points two apart, from one of two offsets, with
\* the signed arc length of every point from the point of the ego vehicle
PathInputs ==
  {[CycleData EXCEPT
      !.reference_path = [i \in 1..MaxPoints |-> offset + 2 * (i - 1)],
      !.arclength_from_ego = [i \in 1..MaxPoints |-> 2 * (i - ego)]] :
     offset \in 0..1, ego \in 1..2}

\* a line whose two ends were set at points of the path, the start not after the end
LinesOnPath(d) ==
  {setEndData(setStartData(DefaultLine, 0, [position |-> d.reference_path[i + 1]], i,
                           d.arclength_from_ego[i + 1]),
              1, [position |-> d.reference_path[j + 1]], j, d.arclength_from_ego[j + 1]) :
     i \in 0..(MaxPoints - 1), j \in 0..(MaxPoints - 1)} 

OrderedLinesOnPath(d) == {l \in LinesOnPath(d) : l.start_idx <= l.end_idx}

InitShiftLines ==
  /\ parameters = BaseParameters
  /\ planner_data = [vehicle_width |-> 2]
  /\ now = 0
  /\ pc = "lines"
  /\ objects = <<>>
  /\ data \in PathInputs
  /\ stopped_objects = <<>>
  /\ registered_objects = <<>>
  /\ InitHistory
  /\ InitMargin
  /\ base_lines = <<>>
  /\ added_lines = <<>>
  /\ lines \in UNION {[1..n -> OrderedLinesOnPath(data)] : n \in 0..MaxLines}
  /\ InitModule
  /\ InitNode
  /\ InitCall

LinePcs == {"lines", "start_set", "end_set", "resynced"}

\* setStartData on the newest line, with the data of a point of the path
SetStartData ==
  /\ pc \in LinePcs
  /\ lines # <<>>
  /\ \E i \in 0..(MaxPoints - 1) :
       lines' = [lines EXCEPT ![Len(lines)] =
                   setStartData(lines[Len(lines)], 0, [position |-> data.reference_path[i + 1]], i,
                                data.arclength_from_ego[i + 1])]
  /\ pc' = "start_set"
  /\ UNCHANGED <<node, parameters, planner_data, now, objects, data, stopped_objects,
                 registered_objects, erased, prev_required, moving_since,
                 stopped_at, stopped_since, margin_in, margin_out, base_lines, added_lines, module, call, ret>>

\* setEndData on the newest line, with the data of a point of the path
SetEndData ==
  /\ pc \in LinePcs
  /\ lines # <<>>
  /\ \E i \in 0..(MaxPoints - 1) :
       lines' = [lines EXCEPT ![Len(lines)] =
                   setEndData(lines[Len(lines)], 1, [position |-> data.reference_path[i + 1]], i,
                              data.arclength_from_ego[i + 1])]
  /\ pc' = "end_set"
  /\ UNCHANGED <<node, parameters, planner_data, now, objects, data, stopped_objects,
                 registered_objects, erased, prev_required, moving_since,
                 stopped_at, stopped_since, margin_in, margin_out, base_lines, added_lines, module, call, ret>>

\* a new cycle brings a new reference path, and the lines are resynchronised
FillAdditionalInfoFromPoint ==
  /\ pc \in LinePcs
  /\ data' \in PathInputs
  /\ lines' = fillAdditionalInfoFromPoint(data', lines)
  /\ pc' = "resynced"
  /\ UNCHANGED <<node, parameters, planner_data, now, objects, stopped_objects,
                 registered_objects, erased, prev_required, moving_since,
                 stopped_at, stopped_since, margin_in, margin_out, base_lines, added_lines, module, call, ret>>

NextShiftLines == SetStartData \/ SetEndData \/ FillAdditionalInfoFromPoint

SpecShiftLines == InitShiftLines /\ [][NextShiftLines]_vars

-----------------------------------------------------------------------------
(* AvoidanceModule::isComfortable *)

\* AvoidLine::getRelativeLength and AvoidLine::getRelativeLongitudinal
getRelativeLength(line) == line.end_shift_length - line.start_shift_length

getRelativeLongitudinal(line) == line.end_longitudinal - line.start_longitudinal

\* the shortest longitudinal distance a jerk is computed for
LON_EP == 1

\* PathShifter::calcJerkFromLatLonDistance: 32 |lateral| |velocity|^3 / longitudinal^3,
\* kept as a fraction
calcJerkFromLatLonDistance(lateral, longitudinal, velocity) ==
  LET lat == Abs(lateral)
      lon == Max2(longitudinal, LON_EP)
      vel == Abs(velocity)
  IN [num |-> 32 * lat * vel * vel * vel, den |-> lon * lon * lon]

\* jerk < limit and jerk <= limit for a jerk kept as a fraction
JerkBelow(jerk, limit) == jerk.num < limit * jerk.den

JerkNotAbove(jerk, limit) == jerk.num <= limit * jerk.den

\* AvoidanceHelper::getAvoidanceEgoSpeed and AvoidanceHelper::getLateralMaxJerkLimit
getAvoidanceEgoSpeed == planner_data.ego_speed

getLateralMaxJerkLimit == parameters.max_lateral_jerk

LineJerk(line) ==
  calcJerkFromLatLonDistance(getRelativeLength(line), getRelativeLongitudinal(line),
                             getAvoidanceEgoSpeed)

RECURSIVE AllOfBelow(_, _)
\* std::all_of from index k on
AllOfBelow(shift_lines, k) ==
  IF k > Len(shift_lines) THEN TRUE
  ELSE IF ~JerkBelow(LineJerk(shift_lines[k]), getLateralMaxJerkLimit) THEN FALSE
  ELSE AllOfBelow(shift_lines, k + 1)

\* mutant: a jerk at the limit counts as comfortable
isComfortable_AtLimit(shift_lines) ==
  \A k \in 1..Len(shift_lines) :
    JerkNotAbove(LineJerk(shift_lines[k]), getLateralMaxJerkLimit)

isComfortable(shift_lines) == AllOfBelow(shift_lines, 1)

\* the outline generator: lines between points of the path, with a shift to
\* either side, whose ends are placed so that the jerk is within the limit
GeneratedLines(d) ==
  {l \in {[m EXCEPT !.end_shift_length = e] :
            m \in OrderedLinesOnPath(d), e \in {-2, 0, 1}} :
     JerkNotAbove(LineJerk(l), getLateralMaxJerkLimit)}

InitComfort ==
  /\ parameters = BaseParameters
  /\ planner_data \in {[vehicle_width |-> 2, ego_speed |-> v] : v \in 1..MaxSpeed}
  /\ now = 0
  /\ pc = "outline"
  /\ objects = <<>>
  /\ data \in PathInputs
  /\ stopped_objects = <<>>
  /\ registered_objects = <<>>
  /\ InitHistory
  /\ InitMargin
  /\ InitLines
  /\ InitModule
  /\ InitNode
  /\ InitCall

GenerateOutline ==
  /\ pc = "outline"
  /\ lines' \in UNION {[1..n -> GeneratedLines(data)] : n \in 0..MaxLines}
  /\ pc' = "generated"
  /\ UNCHANGED <<node, parameters, planner_data, now, objects, data, stopped_objects,
                 registered_objects, erased, prev_required, moving_since,
                 stopped_at, stopped_since, margin_in, margin_out, base_lines, added_lines, module, call, ret>>

IsComfortable ==
  /\ pc = "generated"
  /\ data' = [data EXCEPT !.comfortable = isComfortable(lines)]
  /\ pc' = "checked"
  /\ UNCHANGED <<node, parameters, planner_data, now, objects, stopped_objects,
                 registered_objects, erased, prev_required, moving_since,
                 stopped_at, stopped_since, margin_in, margin_out, line_vars, module, call, ret>>

NextComfort == GenerateOutline \/ IsComfortable

SpecComfort == InitComfort /\ [][NextComfort]_vars

-----------------------------------------------------------------------------
(* Claims on the ordering of shift lines *)

Ordered(line) == line.start_longitudinal <= line.end_longitudinal

-----------------------------------------------------------------------------
(* Claims on the jerk of shift lines *)

\* 32 |relative shift length| speed^3 compared with limit * relative longitudinal^3
JerkTimesDistance(line) ==
  32 * Abs(line.end_shift_length - line.start_shift_length)
     * planner_data.ego_speed * planner_data.ego_speed * planner_data.ego_speed

LimitTimesDistance(line) ==
  LET lon == IF line.end_longitudinal - line.start_longitudinal > 1
               THEN line.end_longitudinal - line.start_longitudinal ELSE 1
  IN parameters.max_lateral_jerk * lon * lon * lon

-----------------------------------------------------------------------------
(* The ego state machine *)

\* an avoid margin cannot be derived for some target object and avoidance is
\* infeasible within the stop distance
isYieldRequired(d) ==
  /\ \E k \in 1..Len(d.target_objects) : d.target_objects[k].avoid_margin = NoMargin
  /\ ~d.avoidance_feasible

\* mutant: the state is AVOID_EXECUTE as soon as a target needs no yield
updateEgoState_WithoutCommit(d, m) ==
  IF d.target_objects = <<>> THEN "NOT_AVOID"
  ELSE IF d.yield_required THEN "YIELD"
  ELSE "AVOID_EXECUTE"

\* AvoidanceModule::updateEgoState
updateEgoState(d, m) ==
  IF d.target_objects = <<>> THEN "NOT_AVOID"
  ELSE IF d.yield_required THEN "YIELD"
  ELSE IF m.path_shifter.shift_lines # <<>> THEN "AVOID_EXECUTE"
  ELSE "AVOID_PATH_NOT_READY"

\* the stop distance before the object
STOP_MARGIN == 1

\* mutant: the stop point is put at the object
insertStopPoint_AtObject(d) ==
  [d EXCEPT !.stop_point = <<SetMin({o.longitudinal : o \in
                                       {d.target_objects[k] : k \in 1..Len(d.target_objects)}})>>]

\* AvoidanceModule::insertStopPoint: a stop point before the nearest target object
insertStopPoint(d) ==
  [d EXCEPT !.stop_point = <<SetMin({o.longitudinal : o \in
                                       {d.target_objects[k] : k \in 1..Len(d.target_objects)}})
                               - STOP_MARGIN>>]

\* a candidate shift exists when every target object has an avoid margin
HasCandidate(d) ==
  /\ d.target_objects # <<>>
  /\ \A k \in 1..Len(d.target_objects) : d.target_objects[k].avoid_margin # NoMargin

\* target objects of the state machine: ahead of the ego vehicle, with or
\* without a derivable avoid margin
EgoTargets ==
  {[DefaultObject EXCEPT !.longitudinal = l, !.avoid_margin = m] :
     l \in 2..3, m \in {NoMargin, <<1>>}}

InitEgo ==
  /\ parameters = BaseParameters
  /\ planner_data = [vehicle_width |-> 2]
  /\ now = 0
  /\ pc = "idle"
  /\ objects = <<>>
  /\ data = CycleData
  /\ stopped_objects = <<>>
  /\ registered_objects = <<>>
  /\ InitHistory
  /\ InitMargin
  /\ InitLines
  /\ InitModule
  /\ InitNode
  /\ InitCall

\* the data of a new cycle: the target objects, the verdict of the safety
\* checker on the candidate path and the feasibility of the avoidance
FillFundamentalData ==
  /\ pc = "idle"
  /\ \E l \in SubLists(EgoTargets, 1), safe \in BOOLEAN, feasible \in BOOLEAN :
       data' = [CycleData EXCEPT !.target_objects = l, !.safe = safe,
                                 !.avoidance_feasible = feasible]
  /\ pc' = "filled"
  /\ UNCHANGED <<node, parameters, planner_data, now, objects, stopped_objects,
                 registered_objects, erased, prev_required, moving_since,
                 stopped_at, stopped_since, margin_in, margin_out, line_vars, module, call, ret>>

FillEgoStatus ==
  /\ pc = "filled"
  /\ LET d == [data EXCEPT !.yield_required = isYieldRequired(data)]
     IN data' = [d EXCEPT !.state = updateEgoState(d, module)]
  /\ pc' = "status"
  /\ UNCHANGED <<node, parameters, planner_data, now, objects, stopped_objects,
                 registered_objects, erased, prev_required, moving_since,
                 stopped_at, stopped_since, margin_in, margin_out, line_vars, module, call, ret>>

\* the output of the cycle: a stop point when yielding; the candidate is
\* committed to the path shifter when it is safe and approved; shift lines
\* behind the ego vehicle leave the path shifter
Plan ==
  /\ pc = "status"
  /\ data' = IF data.state = "YIELD" THEN insertStopPoint(data) ELSE data
  /\ \E approved \in BOOLEAN, passed \in BOOLEAN :
       module' =
         IF HasCandidate(data) /\ data.state # "YIELD" /\ data.safe /\ approved
              /\ module.path_shifter.shift_lines = <<>>
           THEN [module EXCEPT !.path_shifter.shift_lines = <<DefaultLine>>,
                               !.safety_passed = TRUE]
         ELSE IF passed
           THEN [module EXCEPT !.path_shifter.shift_lines = <<>>,
                               !.safety_passed = FALSE]
         ELSE module
  /\ pc' = "idle"
  /\ UNCHANGED <<node, parameters, planner_data, now, objects, stopped_objects,
                 registered_objects, erased, prev_required, moving_since,
                 stopped_at, stopped_since, margin_in, margin_out, line_vars, call, ret>>

NextEgo == FillFundamentalData \/ FillEgoStatus \/ Plan

SpecEgo == InitEgo /\ [][NextEgo]_vars

-----------------------------------------------------------------------------
(* Claims on the ego state machine *)

HasTargets == data.target_objects # <<>>

Committed == module.path_shifter.shift_lines # <<>>

\* C21: without target objects the state is NOT_AVOID; with a target object,
\* no yield and no committed shift it is AVOID_PATH_NOT_READY; it is
\* AVOID_EXECUTE only with a committed shift that the safety checker has passed,
\* and no step leads from NOT_AVOID to AVOID_EXECUTE without that
C21_EgoStateSequence ==
  /\ [](pc = "status" =>
          /\ ~HasTargets => data.state = "NOT_AVOID"
          /\ (HasTargets /\ ~Committed /\ ~data.yield_required)
               => data.state = "AVOID_PATH_NOT_READY"
          /\ data.state = "AVOID_EXECUTE" => (Committed /\ module.safety_passed))
  /\ [][(data.state = "NOT_AVOID" /\ data'.state = "AVOID_EXECUTE")
          => module'.safety_passed]_vars

\* the state is AVOID_EXECUTE for a target object whose candidate the safety
\* checker rejects in this cycle, on a shift committed earlier
C21_Witness ==
  /\ pc = "status"
  /\ data.state = "AVOID_EXECUTE"
  /\ ~data.safe
  /\ module.safety_passed

\* an object without avoid margin, avoidance infeasible within the stop distance
YieldCase ==
  /\ \E k \in 1..Len(data.target_objects) : data.target_objects[k].avoid_margin = NoMargin
  /\ ~data.avoidance_feasible

\* C22: with a target object without derivable avoid margin and avoidance
\* infeasible within the stop distance the state is YIELD, and the output of
\* the cycle has a stop point before every target object
C22_YieldEntry ==
  /\ [](pc = "status" => (YieldCase => data.state = "YIELD"))
  /\ [][(pc = "status" /\ YieldCase) =>
          /\ data'.stop_point # <<>>
          /\ \A k \in 1..Len(data.target_objects) :
               data'.stop_point[1] < data.target_objects[k].longitudinal]_vars

\* a cycle has ended with a stop point two before an object without margin
C22_Witness ==
  /\ pc = "idle"
  /\ data.state = "YIELD"
  /\ data.stop_point = <<1>>
  /\ data.target_objects # <<>>
  /\ data.target_objects[1].longitudinal = 2

-----------------------------------------------------------------------------
(* getAdjacentLane, getSafetyCheckTargetObjects *)

\* the lanelets next to the lanelet sequence of the ego vehicle on one side;
\* the route handler is the record rh of what the map holds
getAdjacentLane(rh, is_right_shift) ==
  IF ~rh.closest_lanelet_within_route THEN <<>>
  ELSE LET left == IF ~is_right_shift /\ rh.left_lanelet THEN <<"left">> ELSE <<>>
           right == IF is_right_shift /\ rh.right_lanelet THEN <<"right">> ELSE <<>>
           opposite == IF is_right_shift /\ rh.right_opposite_lanelets
                         THEN <<"right_opposite">> ELSE <<>>
       IN left \o right \o opposite

\* path_safety_checker::separateObjectsByLanelets with isCentroidWithinLanelet:
\* the objects whose centroid is within one of the lanelets
CentroidWithinLanelets(objs, check_lanes) ==
  SelectSeq(objs, LAMBDA o : \E k \in 1..Len(check_lanes) : check_lanes[k] = o.centroid_lane)

\* mutant: every target object counts as unavoidable
unavoidable_objects_AllTargets(d) == d.target_objects

unavoidable_objects(d) == SelectSeq(d.target_objects, LAMBDA o : ~o.is_avoidable)

\* the objects one group of lanes contributes
CheckLanes(d, p, check_lanes) ==
  (IF p.check_other_object THEN CentroidWithinLanelets(d.other_objects, check_lanes)
                           ELSE <<>>)
  \o (IF p.check_unavoidable_object
        THEN CentroidWithinLanelets(unavoidable_objects(d), check_lanes)
        ELSE <<>>)

getSafetyCheckTargetObjects(d, rh, p, is_right_shift) ==
  LET check_right_lanes == \/ is_right_shift /\ p.check_shift_side_lane
                           \/ ~is_right_shift /\ p.check_other_side_lane
      check_left_lanes == \/ ~is_right_shift /\ p.check_shift_side_lane
                          \/ is_right_shift /\ p.check_other_side_lane
  IN (IF check_right_lanes THEN CheckLanes(d, p, getAdjacentLane(rh, TRUE)) ELSE <<>>)
     \o (IF check_left_lanes THEN CheckLanes(d, p, getAdjacentLane(rh, FALSE)) ELSE <<>>)
     \o (IF p.check_current_lane THEN CheckLanes(d, p, d.current_lanelets) ELSE <<>>)

SafetyParameters ==
  {[BaseParameters EXCEPT !.check_shift_side_lane = f[1], !.check_other_side_lane = f[2],
                          !.check_current_lane = f[3], !.check_other_object = f[4],
                          !.check_unavoidable_object = f[5]] :
     f \in [1..5 -> BOOLEAN]}

RouteHandlers ==
  {[vehicle_width |-> 2, closest_lanelet_within_route |-> c, left_lanelet |-> l,
    right_lanelet |-> r, right_opposite_lanelets |-> ro] :
     c \in BOOLEAN, l \in BOOLEAN, r \in BOOLEAN, ro \in BOOLEAN}

LaneNames == {"current", "left", "right", "right_opposite", "none"}

\* the partition of a cycle: at most one rejected and one target object
SafetyData ==
  {[EmptyData EXCEPT !.current_lanelets = <<"current">>,
                     !.other_objects = o, !.target_objects = t] :
     o \in {<<>>} \cup {<<[DefaultObject EXCEPT !.object_id = 1, !.centroid_lane = n,
                                                !.reason = "NotNeedAvoidance"]>> :
                           n \in LaneNames},
     t \in {<<>>} \cup {<<[DefaultObject EXCEPT !.object_id = 2, !.centroid_lane = n,
                                                !.is_avoidable = a]>> :
                           n \in LaneNames, a \in BOOLEAN}}

InitSafety ==
  /\ parameters \in SafetyParameters
  /\ planner_data \in RouteHandlers
  /\ now = 0
  /\ pc = "safety"
  /\ objects = <<>>
  /\ data \in SafetyData
  /\ stopped_objects = <<>>
  /\ registered_objects = <<>>
  /\ InitHistory
  /\ InitMargin
  /\ InitLines
  /\ InitModule
  /\ InitNode
  /\ InitCall

GetSafetyCheckTargetObjects ==
  /\ pc = "safety"
  /\ \E is_right_shift \in BOOLEAN :
       /\ call' = [is_right_shift |-> is_right_shift]
       /\ ret' = getSafetyCheckTargetObjects(data, planner_data, parameters, is_right_shift)
  /\ pc' = "safety_targets"
  /\ UNCHANGED <<node, parameters, planner_data, now, objects, data, stopped_objects,
                 registered_objects, erased, prev_required, moving_since,
                 stopped_at, stopped_since, margin_in, margin_out, line_vars, module>>

NextSafety == GetSafetyCheckTargetObjects

SpecSafety == InitSafety /\ [][NextSafety]_vars

-----------------------------------------------------------------------------
(* Claims on getSafetyCheckTargetObjects *)

InRet(o) == \E k \in 1..Len(ret) : ret[k] = o

IsOther(o) == \E k \in 1..Len(data.other_objects) : data.other_objects[k] = o

IsTarget(o) == \E k \in 1..Len(data.target_objects) : data.target_objects[k] = o

\* the lanes of the side of the shift, of the other side, and the current
\* lanes, as far as the map has them and the closest lanelet is found
ShiftSideLanes ==
  IF ~planner_data.closest_lanelet_within_route THEN {}
  ELSE IF call.is_right_shift
    THEN {n \in {"right", "right_opposite"} :
            \/ n = "right" /\ planner_data.right_lanelet
            \/ n = "right_opposite" /\ planner_data.right_opposite_lanelets}
    ELSE {n \in {"left"} : planner_data.left_lanelet}

OtherSideLanes ==
  IF ~planner_data.closest_lanelet_within_route THEN {}
  ELSE IF call.is_right_shift
    THEN {n \in {"left"} : planner_data.left_lanelet}
    ELSE {n \in {"right", "right_opposite"} :
            \/ n = "right" /\ planner_data.right_lanelet
            \/ n = "right_opposite" /\ planner_data.right_opposite_lanelets}

CheckedLanes ==
  (IF parameters.check_shift_side_lane THEN ShiftSideLanes ELSE {})
  \cup (IF parameters.check_other_side_lane THEN OtherSideLanes ELSE {})
  \cup (IF parameters.check_current_lane THEN {"current"} ELSE {})

\* C23: an object is a safety-check target iff its centroid is in a checked
\* lane group (shift side iff check_shift_side_lane, other side iff
\* check_other_side_lane, current lanes iff check_current_lane) and it is a
\* rejected object with check_other_object set or a target object that is not
\* avoidable with check_unavoidable_object set
C23_SafetyCheckTargets ==
  pc = "safety_targets" =>
    /\ \A k \in 1..Len(ret) : IsOther(ret[k]) \/ IsTarget(ret[k])
    /\ \A o \in {data.other_objects[k] : k \in 1..Len(data.other_objects)} :
         InRet(o) <=> (parameters.check_other_object /\ o.centroid_lane \in CheckedLanes)
    /\ \A o \in {data.target_objects[k] : k \in 1..Len(data.target_objects)} :
         InRet(o) <=> /\ parameters.check_unavoidable_object
                      /\ ~o.is_avoidable
                      /\ o.centroid_lane \in CheckedLanes

\* for a shift to the left with only the other side checked, a target object
\* that is not avoidable, in the opposite lane on the right, is selected, and an
\* object in the current lanes is not
C23_Witness ==
  /\ pc = "safety_targets"
  /\ ~call.is_right_shift
  /\ ~parameters.check_shift_side_lane
  /\ ~parameters.check_current_lane
  /\ Len(ret) = 1
  /\ ret[1].centroid_lane = "right_opposite"
  /\ IsTarget(ret[1])
  /\ \E k \in 1..Len(data.other_objects) : data.other_objects[k].centroid_lane = "current"

-----------------------------------------------------------------------------
(* separateObjectsByPath.  The path runs along the x axis, a path point is   *)
(* its x coordinate and lengths are in metres; a polygon is a set of         *)
(* rectangles, the empty set the empty polygon.                              *)

\* the rectangle of the vehicle at the origin, widened by the offset
createVehiclePolygon(vehicle_info, offset) ==
  [x1 |-> 0 - vehicle_info.rear_overhang, x2 |-> vehicle_info.max_longitudinal_offset,
   y1 |-> 0 - (vehicle_info.vehicle_width \div 2 + offset),
   y2 |-> vehicle_info.vehicle_width \div 2 + offset]

\* the convex hull of the base polygon placed at both poses
createOneStepPolygon(p_front, p_back, base_polygon) ==
  ReturnEnvelope({[base_polygon EXCEPT !.x1 = @ + q, !.x2 = @ + q] : q \in {p_front, p_back}})

\* boost::geometry::disjoint of a rectangle and a polygon: no common point,
\* not even one of the border
disjoint(b, polygon) ==
  \A r \in polygon :
    ~(Min2(b.x2, r.x2) - Max2(b.x1, r.x1) >= 0 /\ Min2(b.y2, r.y2) - Max2(b.y1, r.y1) >= 0)

\* boost::geometry::union_ of a polygon and a rectangle
unionPolygon(polygon, b, order) ==
  IF polygon = {} THEN <<{b}>>
  ELSE IF \E r \in polygon : Connected(r, b) THEN <<polygon \cup {b}>>
  ELSE IF order = 1 THEN <<polygon, {b}>> ELSE <<{b}, polygon>>

\* boost::geometry::buffer with a symmetric distance; the round joins are
\* drawn as square ones
buffer(polygon, distance) ==
  IF polygon = {} THEN <<>> ELSE <<{expandPolygon(r, distance) : r \in polygon}>>

\* the largest lateral offset over the object types
MaxOffset(p) ==
  SetMax({0} \cup {2 * p.object_parameters[l].envelope_buffer_margin
                     + p.object_parameters[l].safety_buffer_lateral
                     + p.object_parameters[l].avoid_margin_lateral :
                   l \in DOMAIN p.object_parameters})

RECURSIVE AttentionLoop(_, _, _, _, _, _, _)
\* the loop over the steps of the path, i counted from 1
AttentionLoop(path, ego_idx, forward_distance, detection_area, i, attention_area, order) ==
  IF i > Len(path) - 1 THEN attention_area
  ELSE IF path[i] - path[ego_idx] > forward_distance THEN attention_area
  ELSE LET ego_one_step_polygon == createOneStepPolygon(path[i], path[i + 1], detection_area)
           unions == unionPolygon(attention_area, ego_one_step_polygon, order)
       IN AttentionLoop(path, ego_idx, forward_distance, detection_area, i + 1,
                        IF unions # <<>> THEN unions[1] ELSE attention_area, order)

MARGIN == 1

\* the attention area the objects are compared with
AttentionArea(path, pd, p, forward_distance, is_running, order) ==
  LET detection_area == createVehiclePolygon(pd.vehicle_info, MaxOffset(p))
      attention_area == AttentionLoop(path, pd.ego_idx, forward_distance, detection_area,
                                      1, {}, order)
      result == buffer(attention_area, MARGIN)
  IN IF is_running /\ result # <<>> THEN result[1] ELSE attention_area

\* mutant: the area is expanded while the module is not running
separateObjectsByPath_ExpandsWhenIdle(path, pd, p, forward_distance, is_running, order) ==
  LET attention_area == AttentionArea(path, pd, p, forward_distance, ~is_running, order)
      objs == pd.dynamic_object
  IN [target_objects |-> SelectSeq(objs, LAMBDA o : ~disjoint(o.footprint, attention_area)),
      other_objects |-> SelectSeq(objs, LAMBDA o : disjoint(o.footprint, attention_area))]

separateObjectsByPath(path, pd, p, forward_distance, is_running, order) ==
  LET attention_area == AttentionArea(path, pd, p, forward_distance, is_running, order)
      objs == pd.dynamic_object
  IN [target_objects |-> SelectSeq(objs, LAMBDA o : ~disjoint(o.footprint, attention_area)),
      other_objects |-> SelectSeq(objs, LAMBDA o : disjoint(o.footprint, attention_area))]

\* paths of one to MaxPoints points, in the order of travel
Paths ==
  UNION {{q \in [1..n -> 0..MaxPoints] : \A i \in 1..(n - 1) : q[i] < q[i + 1]} :
           n \in 1..MaxPoints}

\* objects beside and ahead of the path, up to two in a cycle
PathObjects(id) ==
  {[DefaultObject EXCEPT !.object_id = id,
                         !.footprint = [x1 |-> x, x2 |-> x + 1, y1 |-> y, y2 |-> y + 1]] :
     x \in {0, 2, 4, 6}, y \in 4..7}

DynamicObjects ==
  {<<>>} \cup {<<a>> : a \in PathObjects(1)}
         \cup {<<a, b>> : a \in PathObjects(1), b \in PathObjects(2)}

InitPath ==
  /\ parameters = BaseParameters
  /\ data \in {[CycleData EXCEPT !.reference_path = q] : q \in Paths}
  /\ planner_data \in
       {[vehicle_width |-> 2,
         vehicle_info |-> [vehicle_width |-> 2, max_longitudinal_offset |-> 1,
                           rear_overhang |-> 0],
         ego_idx |-> e, dynamic_object |-> l] :
          e \in 1..Len(data.reference_path), l \in DynamicObjects}
  /\ now = 0
  /\ pc = "path"
  /\ objects = <<>>
  /\ stopped_objects = <<>>
  /\ registered_objects = <<>>
  /\ InitHistory
  /\ InitMargin
  /\ InitLines
  /\ InitModule
  /\ InitNode
  /\ InitCall

SeparateObjectsByPath ==
  /\ pc \in {"path", "separated"}
  /\ \E is_running \in BOOLEAN, forward_distance \in {0, 2}, order \in 1..2 :
       /\ call' = [is_running |-> is_running, forward_distance |-> forward_distance]
       /\ ret' = separateObjectsByPath(data.reference_path, planner_data, parameters,
                                       forward_distance, is_running, order)
  /\ pc' = "separated"
  /\ UNCHANGED <<node, parameters, planner_data, now, objects, data, stopped_objects,
                 registered_objects, erased, prev_required, moving_since,
                 stopped_at, stopped_since, margin_in, margin_out, line_vars, module>>

NextPath == SeparateObjectsByPath

SpecPath == InitPath /\ [][NextPath]_vars

-----------------------------------------------------------------------------
(* Claims on separateObjectsByPath *)

IdsOf(list) == {list[k].object_id : k \in 1..Len(list)}

\* the area of the last call, whatever order the union emits its parts in
CalledArea(order) ==
  AttentionArea(data.reference_path, planner_data, parameters, call.forward_distance,
                call.is_running, order)

\* C24: every dynamic object is returned in exactly one of the two lists, in
\* the target list iff its polygon is not disjoint from the attention area,
\* and a call with is_running set after one without it, for the same path,
\* objects and distance, returns every target of the earlier call as a target
C24_SeparateByPath ==
  /\ [](pc = "separated" =>
          /\ \A k \in 1..Len(planner_data.dynamic_object) :
               LET o == planner_data.dynamic_object[k]
               IN /\ CountIn(ret.target_objects, o.object_id)
                       + CountIn(ret.other_objects, o.object_id) = 1
                  /\ CountIn(ret.target_objects, o.object_id) = 1
                       <=> \E order \in 1..2 : ~disjoint(o.footprint, CalledArea(order))
          /\ IdsOf(ret.target_objects) \cup IdsOf(ret.other_objects)
               = IdsOf(planner_data.dynamic_object))
  /\ [][(/\ pc = "separated"
         /\ ~call.is_running
         /\ call'.is_running
         /\ call'.forward_distance = call.forward_distance)
          => IdsOf(ret.target_objects) \subseteq IdsOf(ret'.target_objects)]_vars

\* an object beside the attention area is rejected while the module is idle
\* and a target in the call made while it is running; another is a target in both
C24_Witness ==
  /\ pc = "separated"
  /\ call.is_running
  /\ Len(ret.target_objects) = 2
  /\ Len(data.reference_path) >= 2
  /\ LET idle == separateObjectsByPath(data.reference_path, planner_data, parameters,
                                       call.forward_distance, FALSE, 1)
     IN Len(idle.target_objects) = 1 /\ Len(idle.other_objects) = 1

-----------------------------------------------------------------------------
(* generateObstaclePolygonsForDrivableArea *)

\* the objects the loop does not skip
ReachesLookup(object, p) ==
  /\ p.disable_path_update \/ ~object.is_avoidable
  /\ object.avoid_margin # NoMargin

\* the obstacle of one object
Obstacle(object, p, vehicle_width) ==
  LET object_parameter == p.object_parameters[object.label]
      diff_poly_buffer ==
        object.avoid_margin[1] - object_parameter.envelope_buffer_margin - vehicle_width \div 2
  IN [object_id |-> object.object_id,
      poly |-> expandPolygon(object.envelope_poly, diff_poly_buffer),
      is_left |-> 0 < object.lateral]

\* mutant: avoidable objects are extracted as well
generateObstaclePolygonsForDrivableArea_AllObjects(objs, p, vehicle_width) ==
  IF objs = <<>> \/ ~p.enable_bound_clipping THEN [threw |-> FALSE, obstacles |-> <<>>]
  ELSE LET reached == SelectSeq(objs, LAMBDA o : o.avoid_margin # NoMargin)
       IN IF \E k \in 1..Len(reached) : reached[k].label \notin DOMAIN p.object_parameters
            THEN [threw |-> TRUE, obstacles |-> <<>>]
            ELSE [threw |-> FALSE,
                  obstacles |-> [k \in 1..Len(reached) |-> Obstacle(reached[k], p, vehicle_width)]]

\* threw: object_parameters.at() found no entry for the type of an object
generateObstaclePolygonsForDrivableArea(objs, p, vehicle_width) ==
  IF objs = <<>> \/ ~p.enable_bound_clipping THEN [threw |-> FALSE, obstacles |-> <<>>]
  ELSE LET reached == SelectSeq(objs, LAMBDA o : ReachesLookup(o, p))
       IN IF \E k \in 1..Len(reached) : reached[k].label \notin DOMAIN p.object_parameters
            THEN [threw |-> TRUE, obstacles |-> <<>>]
            ELSE [threw |-> FALSE,
                  obstacles |-> [k \in 1..Len(reached) |-> Obstacle(reached[k], p, vehicle_width)]]

ObstacleObjects(id) ==
  {[DefaultObject EXCEPT !.object_id = id, !.label = l, !.is_avoidable = a,
                         !.avoid_margin = m, !.lateral = lat] :
     l \in {"CAR", "BUS"}, a \in BOOLEAN, m \in {NoMargin, <<2>>, <<3>>}, lat \in {-1, 1}}

InitObstacles ==
  /\ parameters \in {[BaseParameters EXCEPT !.enable_bound_clipping = c,
                                            !.disable_path_update = u] :
                       c \in BOOLEAN, u \in BOOLEAN}
  /\ planner_data = [vehicle_width |-> 2]
  /\ now = 0
  /\ pc = "drivable_area"
  /\ objects = <<>>
  /\ data \in {[CycleData EXCEPT !.target_objects = l] :
                 l \in {<<>>} \cup {<<a>> : a \in ObstacleObjects(1)}
                              \cup {<<a, b>> : a \in ObstacleObjects(1),
                                               b \in ObstacleObjects(2)}}
  /\ stopped_objects = <<>>
  /\ registered_objects = <<>>
  /\ InitHistory
  /\ InitMargin
  /\ InitLines
  /\ InitModule
  /\ InitNode
  /\ InitCall

GenerateObstaclePolygonsForDrivableArea ==
  /\ pc = "drivable_area"
  /\ call' = [objects |-> data.target_objects]
  /\ ret' = generateObstaclePolygonsForDrivableArea(data.target_objects, parameters,
                                                    planner_data.vehicle_width)
  /\ pc' = "obstacles"
  /\ UNCHANGED <<node, parameters, planner_data, now, objects, data, stopped_objects,
                 registered_objects, erased, prev_required, moving_since,
                 stopped_at, stopped_since, margin_in, margin_out, line_vars, module>>

NextObstacles == GenerateObstaclePolygonsForDrivableArea

SpecObstacles == InitObstacles /\ [][NextObstacles]_vars

-----------------------------------------------------------------------------
(* Claims on generateObstaclePolygonsForDrivableArea *)

ObstaclesOf(id) == Cardinality({k \in 1..Len(ret.obstacles) : ret.obstacles[k].object_id = id})

ClipsBounds == pc = "obstacles" /\ parameters.enable_bound_clipping

-----------------------------------------------------------------------------
(* getCurrentLanesFromPath.  A path point is the record of its lane ids; the *)
(* route handler is the lanelet sequence it has around each lanelet.         *)

\* mutant: the lane ids are read from the last point of the path
getCurrentLanesFromPath_LastPoint(path, pd) ==
  IF path = <<>> THEN [threw |-> "empty path.", queried |-> FALSE, lanelets |-> <<>>]
  ELSE IF path[Len(path)].lane_ids = <<>>
    THEN [threw |-> "empty lane ids.", queried |-> FALSE, lanelets |-> <<>>]
  ELSE LET start_id == path[Len(path)].lane_ids[1]
       IN [threw |-> "", queried |-> TRUE, lanelets |-> pd.lanelet_sequence[start_id]]

\* threw: the message of the std::logic_error, "" after a return
getCurrentLanesFromPath(path, pd) ==
  IF path = <<>> THEN [threw |-> "empty path.", queried |-> FALSE, lanelets |-> <<>>]
  ELSE IF path[1].lane_ids = <<>>
    THEN [threw |-> "empty lane ids.", queried |-> FALSE, lanelets |-> <<>>]
  ELSE LET start_id == path[1].lane_ids[1]
       IN [threw |-> "", queried |-> TRUE, lanelets |-> pd.lanelet_sequence[start_id]]

LaneIds == {<<>>, <<1>>, <<2>>, <<1, 2>>}

LanePaths == UNION {[1..n -> {[lane_ids |-> l] : l \in LaneIds}] : n \in 0..MaxPoints}

InitLanes ==
  /\ parameters = BaseParameters
  /\ planner_data \in {[vehicle_width |-> 2, lanelet_sequence |-> q] :
                         q \in [1..2 -> {<<>>, <<1, 2>>}]}
  /\ now = 0
  /\ pc = "lanes"
  /\ objects = <<>>
  /\ data \in {[EmptyData EXCEPT !.reference_path = q] : q \in LanePaths}
  /\ stopped_objects = <<>>
  /\ registered_objects = <<>>
  /\ InitHistory
  /\ InitMargin
  /\ InitLines
  /\ InitModule
  /\ InitNode
  /\ InitCall

GetCurrentLanesFromPath ==
  /\ pc = "lanes"
  /\ call' = [path |-> data.reference_path]
  /\ ret' = getCurrentLanesFromPath(data.reference_path, planner_data)
  /\ pc' = IF ret'.threw # "" THEN "thrown" ELSE "current_lanes"
  /\ UNCHANGED <<node, parameters, planner_data, now, objects, data, stopped_objects,
                 registered_objects, erased, prev_required, moving_since,
                 stopped_at, stopped_since, margin_in, margin_out, line_vars, module>>

NextLanes == GetCurrentLanesFromPath

SpecLanes == InitLanes /\ [][NextLanes]_vars

-----------------------------------------------------------------------------
(* Claims on getCurrentLanesFromPath *)

\* C27: getCurrentLanesFromPath raises, returning no lanelets and without a
\* query of the route handler, iff the path has no points or its first point
\* has no lane ids; otherwise it returns what the route handler has for the
\* first lane id of the first point
C27_CurrentLanes ==
  pc \in {"thrown", "current_lanes"} =>
    /\ pc = "thrown" <=> (call.path = <<>> \/ call.path[1].lane_ids = <<>>)
    /\ pc = "thrown" =>
         /\ ret.threw = (IF call.path = <<>> THEN "empty path." ELSE "empty lane ids.")
         /\ ~ret.queried /\ ret.lanelets = <<>>
    /\ pc = "current_lanes" =>
         /\ ret.queried
         /\ ret.lanelets = planner_data.lanelet_sequence[call.path[1].lane_ids[1]]

\* the first point has no lane ids while the last one has: the call raises
C27_Witness ==
  /\ pc = "thrown"
  /\ Len(call.path) >= 2
  /\ call.path[1].lane_ids = <<>>
  /\ call.path[Len(call.path)].lane_ids # <<>>
  /\ planner_data.lanelet_sequence[call.path[Len(call.path)].lane_ids[1]] # <<>>

-----------------------------------------------------------------------------
(* generateExpandDrivableLanes.  A lanelet is its id.  The route handler rh  *)
(* holds, for every lanelet, all_left and all_right (the lanelets that share *)
(* a linestring on that side, nearest first), next_lanes (the next lanelets  *)
(* of its previous lanelets) and connected, the pairs <<left, right>> of     *)
(* lanelets whose end points are connected.                                  *)

\* appends the additional vector, as the code does
pushUniqueVector(base_vector, additional_vector) == base_vector \o additional_vector

update_left_lanelets(dl, rh, target_lane) ==
  LET all_left_lanelets == rh.all_left[target_lane]
  IN IF all_left_lanelets = <<>> THEN dl
     ELSE [dl EXCEPT !.left_lane = all_left_lanelets[Len(all_left_lanelets)],
                     !.middle_lanes =
                       pushUniqueVector(@, SubSeq(all_left_lanelets, 1,
                                                  Len(all_left_lanelets) - 1))]

update_right_lanelets(dl, rh, target_lane) ==
  LET all_right_lanelets == rh.all_right[target_lane]
  IN IF all_right_lanelets = <<>> THEN dl
     ELSE [dl EXCEPT !.right_lane = all_right_lanelets[Len(all_right_lanelets)],
                     !.middle_lanes =
                       pushUniqueVector(@, SubSeq(all_right_lanelets, 1,
                                                  Len(all_right_lanelets) - 1))]

isEndPointsConnected(rh, left_lane, right_lane) == <<left_lane, right_lane>> \in rh.connected

HasSameLane(middle_lanes, lane) == \E k \in 1..Len(middle_lanes) : middle_lanes[k] = lane

RECURSIVE update_drivable_lanes(_, _, _, _, _)
\* one search over next_lanes from the k-th on: the record after it and
\* whether a lane was adopted.  edge_lane is a reference to the edge of the
\* record, so after the assignment of the new edge it names the new edge
update_drivable_lanes(dl, rh, next_lanes, is_left, k) ==
  IF k > Len(next_lanes) THEN [lanes |-> dl, updated |-> FALSE]
  ELSE LET next_lane == next_lanes[k]
           edge_lane == IF is_left THEN dl.left_lane ELSE dl.right_lane
           left_lane == IF is_left THEN next_lane ELSE edge_lane
           right_lane == IF is_left THEN edge_lane ELSE next_lane
       IN IF next_lane = edge_lane
            THEN update_drivable_lanes(dl, rh, next_lanes, is_left, k + 1)
          ELSE IF ~isEndPointsConnected(rh, left_lane, right_lane)
            THEN update_drivable_lanes(dl, rh, next_lanes, is_left, k + 1)
          ELSE LET moved == IF is_left THEN [dl EXCEPT !.left_lane = next_lane]
                                       ELSE [dl EXCEPT !.right_lane = next_lane]
                   new_edge == next_lane
                   other_edge == IF is_left THEN moved.right_lane ELSE moved.left_lane
               IN [lanes |-> IF ~HasSameLane(moved.middle_lanes, new_edge)
                                 /\ other_edge # new_edge
                               THEN [moved EXCEPT !.middle_lanes = Append(@, new_edge)]
                               ELSE moved,
                   updated |-> TRUE]

max_recursive_search_num == 3

RECURSIVE expand_drivable_area_recursively_OneMore(_, _, _, _, _)
\* mutant: the loop runs once more than max_recursive_search_num
expand_drivable_area_recursively_OneMore(dl, rh, next_lanes, is_left, i) ==
  IF i > max_recursive_search_num THEN [lanes |-> dl, updates |-> 0, logged |-> FALSE]
  ELSE LET u == update_drivable_lanes(dl, rh, next_lanes, is_left, 1)
       IN IF ~u.updated THEN [lanes |-> dl, updates |-> 0, logged |-> FALSE]
          ELSE LET rest == expand_drivable_area_recursively_OneMore(u.lanes, rh, next_lanes,
                                                                    is_left, i + 1)
               IN [lanes |-> rest.lanes, updates |-> rest.updates + 1,
                   logged |-> rest.logged \/ i = max_recursive_search_num - 1]

RECURSIVE expand_drivable_area_recursively(_, _, _, _, _)
\* the loop from iteration i on (counted from 0): the record, the number of
\* searches that adopted a lane and whether the error was logged
expand_drivable_area_recursively(dl, rh, next_lanes, is_left, i) ==
  IF i >= max_recursive_search_num THEN [lanes |-> dl, updates |-> 0, logged |-> FALSE]
  ELSE LET u == update_drivable_lanes(dl, rh, next_lanes, is_left, 1)
       IN IF ~u.updated THEN [lanes |-> dl, updates |-> 0, logged |-> FALSE]
          ELSE LET rest == expand_drivable_area_recursively(u.lanes, rh, next_lanes,
                                                            is_left, i + 1)
               IN [lanes |-> rest.lanes, updates |-> rest.updates + 1,
                   logged |-> rest.logged \/ i = max_recursive_search_num - 1]

\* the result, with the number of adopting searches and the logged errors of
\* each side
generateExpandDrivableLanes(lanelet, rh, p) ==
  LET current == [left_lane |-> lanelet, right_lane |-> lanelet, middle_lanes |-> <<>>]
  IN IF ~p.use_adjacent_lane
       THEN [lanes |-> current, updates_right |-> 0, updates_left |-> 0,
             logged_right |-> FALSE, logged_left |-> FALSE]
     ELSE LET sides == update_right_lanelets(update_left_lanelets(current, rh, lanelet),
                                             rh, lanelet)
              next_lanes_for_right == rh.next_lanes[sides.right_lane]
              next_lanes_for_left == rh.next_lanes[sides.left_lane]
              right == expand_drivable_area_recursively(sides, rh, next_lanes_for_right,
                                                        FALSE, 0)
              left == expand_drivable_area_recursively(right.lanes, rh, next_lanes_for_left,
                                                       TRUE, 0)
              again_left == update_left_lanelets(left.lanes, rh, left.lanes.left_lane)
              again == update_right_lanelets(again_left, rh, again_left.right_lane)
          IN [lanes |-> IF again.left_lane # lanelet /\ again.right_lane # lanelet
                          THEN [again EXCEPT !.middle_lanes = Append(@, lanelet)]
                          ELSE again,
              updates_right |-> right.updates, updates_left |-> left.updates,
              logged_right |-> right.logged, logged_left |-> left.logged]

Lanelets == 1..MaxLanelets

Ring(l) == (l % MaxLanelets) + 1

\* the lanelets beside a lanelet: none, the next one, all further ones, or
\* the next one around a ring
SharedLinestringLanelets ==
  {[l \in Lanelets |-> <<>>],
   [l \in Lanelets |-> IF l < MaxLanelets THEN <<l + 1>> ELSE <<>>],
   [l \in Lanelets |-> [k \in 1..(MaxLanelets - l) |-> l + k]],
   [l \in Lanelets |-> <<Ring(l)>>]}

NextLanelets ==
  {[l \in Lanelets |-> <<>>],
   [l \in Lanelets |-> [k \in 1..MaxLanelets |-> k]],
   [l \in Lanelets |-> [k \in 1..MaxLanelets |-> MaxLanelets + 1 - k]]}

\* end points connected: nowhere, everywhere, along a chain or around a ring
Connections ==
  {{}, Lanelets \X Lanelets,
   {q \in Lanelets \X Lanelets : q[2] = q[1] + 1},
   {q \in Lanelets \X Lanelets : q[2] = Ring(q[1])}}

LaneletMaps ==
  {[vehicle_width |-> 2, all_left |-> l, all_right |-> r, next_lanes |-> n, connected |-> c] :
     l \in SharedLinestringLanelets, r \in SharedLinestringLanelets, n \in NextLanelets,
     c \in Connections}

InitExpand ==
  /\ parameters \in {[BaseParameters EXCEPT !.use_adjacent_lane = u] : u \in BOOLEAN}
  /\ planner_data \in LaneletMaps
  /\ now = 0
  /\ pc = "expand"
  /\ objects = <<>>
  /\ data = CycleData
  /\ stopped_objects = <<>>
  /\ registered_objects = <<>>
  /\ InitHistory
  /\ InitMargin
  /\ InitLines
  /\ InitModule
  /\ InitNode
  /\ InitCall

GenerateExpandDrivableLanes ==
  /\ pc = "expand"
  /\ \E lanelet \in Lanelets :
       /\ call' = [lanelet |-> lanelet]
       /\ ret' = generateExpandDrivableLanes(lanelet, planner_data, parameters)
  /\ pc' = "expanded"
  /\ UNCHANGED <<node, parameters, planner_data, now, objects, data, stopped_objects,
                 registered_objects, erased, prev_required, moving_since,
                 stopped_at, stopped_since, margin_in, margin_out, line_vars, module>>

NextExpand == GenerateExpandDrivableLanes

SpecExpand == InitExpand /\ [][NextExpand]_vars

-----------------------------------------------------------------------------
(* Claims on generateExpandDrivableLanes *)

\* C28: the search of each side adopts a lane at most three times, for any
\* map; exactly when the third search adopts one the error is logged; and
\* the input lanelet is the left lane, the right lane or one of the middle
\* lanes of the result
C28_BoundedSearch ==
  pc = "expanded" =>
    /\ ret.updates_right <= 3 /\ ret.updates_left <= 3
    /\ ret.logged_right <=> ret.updates_right = 3
    /\ ret.logged_left <=> ret.updates_left = 3
    /\ \/ ret.lanes.left_lane = call.lanelet
       \/ ret.lanes.right_lane = call.lanelet
       \/ HasSameLane(ret.lanes.middle_lanes, call.lanelet)

\* end points connected around a ring: the search of the left side is cut
\* at the limit, and the input lanelet is kept as a middle lane
C28_Witness ==
  /\ pc = "expanded"
  /\ ret.logged_left
  /\ ret.updates_left = 3
  /\ ret.lanes.left_lane # call.lanelet
  /\ ret.lanes.right_lane # call.lanelet
  /\ HasSameLane(ret.lanes.middle_lanes, call.lanelet)

-----------------------------------------------------------------------------
(* removeRegisteredShiftLines, postProcess.  Shift lengths and the base      *)
(* offset of the path shifter are in tenths of a metre.                      *)

THRESHOLD == 1     \* 0.1 m

\* an approved shift line is registered: the path shifter and the raw lines
\* get the line, the array of its side gets its entry, its RTC status is kept
\* and the launch of new modules is locked
addShiftLineIfApproved(m, line) ==
  LET relative == line.end_shift_length - line.start_shift_length
  IN [m EXCEPT !.path_shifter.shift_lines = Append(@, line),
               !.left_shift_array =
                 IF relative > 0 THEN Append(@, [uuid |-> line.object_id]) ELSE @,
               !.right_shift_array =
                 IF relative < 0 THEN Append(@, [uuid |-> line.object_id]) ELSE @,
               !.registered_raw_shift_lines = Append(@, line),
               !.current_raw_shift_lines = Append(@, line),
               !.rtc_registered = @ \cup {line.object_id},
               !.new_module_launch_locked = TRUE]

\* PathShifter::removeBehindShiftLineAndSetBaseOffset: the lines that end at
\* or behind the index are removed and the shift of the last of them becomes
\* the base offset
removeBehindShiftLineAndSetBaseOffset(ps, idx) ==
  LET kept == SelectSeq(ps.shift_lines, LAMBDA l : l.end_idx > idx)
      removed == SelectSeq(ps.shift_lines, LAMBDA l : l.end_idx <= idx)
      last == SetMax({removed[k].end_idx : k \in 1..Len(removed)})
  IN IF removed = <<>> THEN ps
     ELSE [base_offset |-> (CHOOSE l \in {removed[k] : k \in 1..Len(removed)} :
                              l.end_idx = last).end_shift_length,
           shift_lines |-> kept]

postProcess(m, idx) ==
  [m EXCEPT !.path_shifter = removeBehindShiftLineAndSetBaseOffset(@, idx)]

\* SceneModuleInterface::removeRTCStatus
removeRTCStatus(m) == [m EXCEPT !.rtc_registered = {}]

\* SceneModuleInterface::unlockNewModuleLaunch
unlockNewModuleLaunch(m) == [m EXCEPT !.new_module_launch_locked = FALSE]

removeRegisteredShiftLines(m) ==
  IF Abs(m.path_shifter.base_offset) > THRESHOLD THEN m
  ELSE LET unlocked == unlockNewModuleLaunch(m)
           cleared == IF unlocked.path_shifter.shift_lines # <<>>
                        THEN removeRTCStatus([unlocked EXCEPT !.left_shift_array = <<>>,
                                                              !.right_shift_array = <<>>])
                        ELSE unlocked
       IN [cleared EXCEPT !.current_raw_shift_lines = <<>>,
                          !.registered_raw_shift_lines = <<>>,
                          !.path_shifter.shift_lines = <<>>]

\* the lines that may be approved next, each ending one point further than
\* the last: to the right, back to the centre, and to the left just at and
\* just above the threshold
ApprovedLines(m) ==
  {[DefaultLine EXCEPT !.object_id = Len(m.registered_raw_shift_lines) + 1,
                       !.end_idx = Len(m.registered_raw_shift_lines) + 1,
                       !.end_shift_length = sh] :
     sh \in {0 - (THRESHOLD + 1), 0, THRESHOLD, THRESHOLD + 1}}

InitReset ==
  /\ parameters = BaseParameters
  /\ planner_data = [vehicle_width |-> 2]
  /\ now = 0
  /\ pc = "idle"
  /\ objects = <<>>
  /\ data = CycleData
  /\ stopped_objects = <<>>
  /\ registered_objects = <<>>
  /\ InitHistory
  /\ InitMargin
  /\ InitLines
  /\ InitModule
  /\ InitNode
  /\ InitCall

AddShiftLineIfApproved ==
  /\ Len(module.registered_raw_shift_lines) < MaxLines
  /\ Len(module.left_shift_array) + Len(module.right_shift_array) < MaxLines
  /\ \E line \in ApprovedLines(module) : module' = addShiftLineIfApproved(module, line)
  /\ pc' = "registered"
  /\ UNCHANGED <<node, parameters, planner_data, now, objects, data, stopped_objects,
                 registered_objects, erased, prev_required, moving_since,
                 stopped_at, stopped_since, margin_in, margin_out, line_vars, call, ret>>

PostProcess ==
  /\ \E idx \in 0..MaxLines : module' = postProcess(module, idx)
  /\ pc' = "processed"
  /\ UNCHANGED <<node, parameters, planner_data, now, objects, data, stopped_objects,
                 registered_objects, erased, prev_required, moving_since,
                 stopped_at, stopped_since, margin_in, margin_out, line_vars, call, ret>>

RemoveRegisteredShiftLines ==
  /\ module' = removeRegisteredShiftLines(module)
  /\ pc' = "removed"
  /\ UNCHANGED <<node, parameters, planner_data, now, objects, data, stopped_objects,
                 registered_objects, erased, prev_required, moving_since,
                 stopped_at, stopped_since, margin_in, margin_out, line_vars, call, ret>>

NextReset == AddShiftLineIfApproved \/ PostProcess \/ RemoveRegisteredShiftLines

SpecReset == InitReset /\ [][NextReset]_vars

-----------------------------------------------------------------------------
(* Claims on removeRegisteredShiftLines *)

ArraysEmpty(m) == m.left_shift_array = <<>> /\ m.right_shift_array = <<>>

LinesEmpty(m) ==
  /\ m.current_raw_shift_lines = <<>>
  /\ m.registered_raw_shift_lines = <<>>
  /\ m.path_shifter.shift_lines = <<>>

\* C29 as stated: with a base offset above 0.1 the call changes nothing;
\* otherwise the raw lines, the lines of the path shifter and both arrays are
\* empty after it
C29_Original ==
  [][RemoveRegisteredShiftLines =>
       IF Abs(module.path_shifter.base_offset) > THRESHOLD
         THEN module' = module
         ELSE LinesEmpty(module') /\ ArraysEmpty(module')]_vars

-----------------------------------------------------------------------------
(* fillObjectStoppableJudge.  Every cycle judges the target objects against  *)
(* the registry of the previous cycle and then updates the registry with     *)
(* them.                                                                     *)

\* mutant: the registered record is not consulted
fillObjectStoppableJudge_NoRecord(object_data, registered, feasible_stop_distance, p) ==
  [object_data EXCEPT !.is_stoppable =
     \/ p.policy_deceleration = "reliable"
     \/ object_data.avoid_required /\ object_data.to_stop_line > feasible_stop_distance]

fillObjectStoppableJudge(object_data, registered, feasible_stop_distance, p) ==
  LET same_id_obj == FindSameId(registered, object_data.object_id)
      is_stoppable == object_data.to_stop_line > feasible_stop_distance
  IN IF p.policy_deceleration = "reliable"
       THEN [object_data EXCEPT !.is_stoppable = TRUE]
     ELSE IF ~object_data.avoid_required
       THEN [object_data EXCEPT !.is_stoppable = FALSE]
     ELSE IF is_stoppable
       THEN [object_data EXCEPT !.is_stoppable = TRUE]
     ELSE IF same_id_obj = 0
       THEN [object_data EXCEPT !.is_stoppable = FALSE]
     ELSE [object_data EXCEPT !.is_stoppable = registered[same_id_obj].is_stoppable]

\* target objects of the stoppable specification: avoidance required or not, the
\* stop line nearer or farther than the feasible stop distance, at the same place
\* or POS_THR apart
StoppableObjects ==
  {[DefaultObject EXCEPT !.avoid_required = a, !.to_stop_line = d, !.position = x] :
     a \in BOOLEAN, d \in {1, 3}, x \in {0, POS_THR}}

InitStoppable ==
  /\ parameters \in {[BaseParameters EXCEPT !.policy_deceleration = s] :
                       s \in {"reliable", "best_effort"}}
  /\ planner_data = [vehicle_width |-> 2, feasible_stop_distance |-> 2]
  /\ now = 0
  /\ pc = "idle"
  /\ objects = <<>>
  /\ data = CycleData
  /\ stopped_objects = <<>>
  /\ registered_objects = <<>>
  /\ InitHistory
  /\ InitMargin
  /\ InitLines
  /\ InitModule
  /\ InitNode
  /\ InitCall

\* a new cycle, a second after the last one: the target objects of the filter, some
\* of the ids in ascending order, the second object alone may stand POS_THR away
ObserveStoppable ==
  /\ pc \in {"idle", "updated"}
  /\ now + 2 <= MaxTime
  /\ now' = now + 2
  /\ \E l \in SubLists(StoppableObjects, MaxObjects) :
       \E seen \in SUBSET (1..Len(l)) :
         /\ Len(l) = MaxObjects
         /\ \A k \in 1..Len(l) : l[k].position # 0 => k = 2
         /\ data' = [CycleData EXCEPT !.target_objects =
                       SelectSeq([k \in 1..Len(l) |-> [l[k] EXCEPT !.last_seen = now + 2]],
                                 LAMBDA o : o.object_id \in seen)]
  /\ pc' = "judge"
  /\ erased' = {}
  /\ UNCHANGED <<node, parameters, planner_data, objects, stopped_objects, registered_objects,
                 prev_required, moving_since, stopped_at, stopped_since, margin_in,
                 margin_out, line_vars, module, call, ret>>

FillObjectStoppableJudge ==
  /\ pc = "judge"
  /\ data' = [data EXCEPT !.target_objects =
                [k \in 1..Len(data.target_objects) |->
                   fillObjectStoppableJudge(data.target_objects[k], registered_objects,
                                            planner_data.feasible_stop_distance,
                                            parameters)]]
  /\ pc' = "update"
  /\ UNCHANGED <<node, parameters, planner_data, now, objects, stopped_objects,
                 registered_objects, erased, prev_required, moving_since,
                 stopped_at, stopped_since, margin_in, margin_out, line_vars, module,
                 call, ret>>

NextStoppable == ObserveStoppable \/ FillObjectStoppableJudge \/ UpdateRegisteredObject

SpecStoppable == InitStoppable /\ [][NextStoppable]_vars

\* the record the judge of this cycle found for the object, <<>> for none
RecordOf(o) ==
  IF HasId(registered_objects, o.object_id)
    THEN <<ObjectWithId(registered_objects, o.object_id)>>
    ELSE <<>>

\* C31: after the judge, is_stoppable of every target object is TRUE under the
\* "reliable" policy; under another policy it is FALSE when avoid_required is
\* FALSE, TRUE when to_stop_line > feasible_stop_distance, and otherwise the
\* is_stoppable of the registered record of the same id (FALSE without record).
\* Under a non-reliable policy an object whose record is stoppable and that is
\* judged with avoid_required is stoppable and is registered as stoppable by the
\* update of the registry that follows, whatever its stop distance.
C31_StoppableLatch ==
  /\ [](pc = "update" =>
          \A k \in 1..Len(data.target_objects) :
            LET o == data.target_objects[k]
                r == RecordOf(o)
            IN /\ o.is_stoppable =
                    IF parameters.policy_deceleration = "reliable" THEN TRUE
                    ELSE IF ~o.avoid_required THEN FALSE
                    ELSE IF o.to_stop_line > planner_data.feasible_stop_distance THEN TRUE
                    ELSE IF r = <<>> THEN FALSE
                    ELSE r[1].is_stoppable
               /\ (/\ parameters.policy_deceleration # "reliable"
                   /\ r # <<>>
                   /\ r[1].is_stoppable
                   /\ o.avoid_required) => o.is_stoppable)
  /\ [][UpdateRegisteredObject =>
          \A k \in 1..Len(data.target_objects) :
            LET o == data.target_objects[k]
            IN (HasId(registered_objects, o.object_id) /\ o.is_stoppable)
                 => \A i \in 1..Len(registered_objects') :
                      registered_objects'[i].object_id = o.object_id
                        => registered_objects'[i].is_stoppable]_vars

\* an object judged stoppable through its record only: avoidance is required, the
\* stop line is not farther than the feasible stop distance any more
C31_Witness ==
  /\ pc = "update"
  /\ parameters.policy_deceleration # "reliable"
  /\ \E k \in 1..Len(data.target_objects) :
       LET o == data.target_objects[k]
       IN /\ o.avoid_required
          /\ ~(o.to_stop_line > planner_data.feasible_stop_distance)
          /\ HasId(registered_objects, o.object_id)
          /\ o.is_stoppable

-----------------------------------------------------------------------------
(* compensateDetectionLost *)

\* mutant: isDetectedNow looks at the now_objects of the call, not at the growing one
RECURSIVE compensateDetectionLost_AgainstInput(_, _, _, _)
compensateDetectionLost_AgainstInput(registered, now_objects, other_objects, k) ==
  IF k > Len(registered) THEN now_objects
  ELSE LET tail == compensateDetectionLost_AgainstInput(registered, now_objects,
                                                        other_objects, k + 1)
           lost == /\ ~HasId(now_objects, registered[k].object_id)
                   /\ ~HasId(other_objects, registered[k].object_id)
       IN IF lost
            THEN SubSeq(tail, 1, Len(now_objects)) \o <<registered[k]>>
                   \o SubSeq(tail, Len(now_objects) + 1, Len(tail))
            ELSE tail

\* the loop over registered_objects from entry k on: the new now_objects
RECURSIVE compensateDetectionLost(_, _, _, _)
compensateDetectionLost(registered, now_objects, other_objects, k) ==
  IF k > Len(registered) THEN now_objects
  ELSE LET isDetectedNow == HasId(now_objects, registered[k].object_id)
           isIgnoreObject == HasId(other_objects, registered[k].object_id)
       IN compensateDetectionLost(registered,
                                  IF ~isDetectedNow /\ ~isIgnoreObject
                                    THEN Append(now_objects, registered[k])
                                    ELSE now_objects,
                                  other_objects, k + 1)

\* registered objects: any ids, the same id possibly in two records that differ
LostObjects ==
  {[DefaultObject EXCEPT !.object_id = id, !.lost_time = t] :
     id \in 1..MaxObjects, t \in {0, 1}}

RECURSIVE RegisteredLists(_)
RegisteredLists(n) ==
  IF n = 0 THEN {<<>>}
  ELSE RegisteredLists(n - 1) \cup
       {Append(l, o) : l \in {x \in RegisteredLists(n - 1) : Len(x) = n - 1},
                       o \in LostObjects}

\* the objects of the ids in S, in ascending order of the id
RECURSIVE DetectedList(_, _)
DetectedList(S, id) ==
  IF id > MaxObjects THEN <<>>
  ELSE (IF id \in S THEN <<[DefaultObject EXCEPT !.object_id = id, !.lost_time = 0]>>
        ELSE <<>>) \o DetectedList(S, id + 1)

\* the state at the call: an id is a target object, another object or not detected
InitCompensate ==
  /\ parameters = BaseParameters
  /\ planner_data = [vehicle_width |-> 2]
  /\ now = 0
  /\ pc = "compensate"
  /\ objects = <<>>
  /\ \E n \in SUBSET (1..MaxObjects) : \E o \in SUBSET ((1..MaxObjects) \ n) :
       data = [CycleData EXCEPT !.target_objects = DetectedList(n, 1),
                                !.other_objects = DetectedList(o, 1)]
  /\ stopped_objects = <<>>
  /\ registered_objects \in RegisteredLists(MaxObjects)
  /\ InitHistory
  /\ InitMargin
  /\ InitLines
  /\ InitModule
  /\ InitNode
  /\ InitCall

CompensateDetectionLost ==
  /\ pc = "compensate"
  /\ data' = [data EXCEPT !.target_objects =
                compensateDetectionLost(registered_objects, data.target_objects,
                                        data.other_objects, 1)]
  /\ pc' = "compensated"
  /\ UNCHANGED <<node, parameters, planner_data, now, objects, stopped_objects,
                 registered_objects, erased, prev_required, moving_since,
                 stopped_at, stopped_since, margin_in, margin_out, line_vars, module,
                 call, ret>>

NextCompensate == CompensateDetectionLost

SpecCompensate == InitCompensate /\ [][NextCompensate]_vars

\* ids of the registered objects found neither in now_objects nor in other_objects
LostIds ==
  {registered_objects[k].object_id : k \in 1..Len(registered_objects)}
    \ (IdsOf(data.target_objects) \cup IdsOf(data.other_objects))

\* C32: compensateDetectionLost keeps the entries now_objects had and appends
\* registered objects only, one for every registered id found neither in
\* now_objects nor in other_objects and none for another id, no id twice; it
\* leaves registered_objects and other_objects as they were; afterwards every
\* registered id occurs in now_objects or in other_objects.
C32_CompensateLost ==
  [][CompensateDetectionLost =>
       LET before == data.target_objects
           after == data'.target_objects
           appended == SubSeq(after, Len(before) + 1, Len(after))
       IN /\ Len(after) >= Len(before)
          /\ SubSeq(after, 1, Len(before)) = before
          /\ \A i \in 1..Len(appended) :
               \E k \in 1..Len(registered_objects) : appended[i] = registered_objects[k]
          /\ IdsOf(appended) = LostIds
          /\ \A i, j \in 1..Len(appended) :
               appended[i].object_id = appended[j].object_id => i = j
          /\ registered_objects' = registered_objects
          /\ data'.other_objects = data.other_objects
          /\ \A k \in 1..Len(registered_objects) :
               \/ HasId(after, registered_objects[k].object_id)
               \/ HasId(data.other_objects, registered_objects[k].object_id)]_vars

\* two records of one lost id were registered and one entry was appended for it
C32_Witness ==
  /\ pc = "compensated"
  /\ Len(data.other_objects) = 1
  /\ Len(data.target_objects) = 1
  /\ \E i, j \in 1..Len(registered_objects) :
       /\ i < j
       /\ registered_objects[i].object_id = registered_objects[j].object_id
       /\ registered_objects[i] # registered_objects[j]
       /\ data.target_objects[1] = registered_objects[i]
       /\ ~HasId(data.other_objects, registered_objects[i].object_id)


-----------------------------------------------------------------------------
(* RTC status of the candidate shift line *)

\* RTCInterface::updateCooperateStatus: the status of the uuid is registered or
\* replaced
updateCooperateStatus(interface, uuid, safe, start_distance, finish_distance) ==
  {s \in interface : s.uuid # uuid}
    \cup {[uuid |-> uuid, safe |-> safe, start_distance |-> start_distance,
           finish_distance |-> finish_distance]}

isRegistered(interface, uuid) == \E s \in interface : s.uuid = uuid

removeCooperateStatus(interface, uuid) == {s \in interface : s.uuid # uuid}

updateCandidateRTCStatus(m, candidate, isExecutionReady) ==
  IF candidate.lateral_shift > 0
    THEN [m EXCEPT !.rtc_interface_ptr_map.left =
                     updateCooperateStatus(@, m.uuid_map.left, isExecutionReady,
                                           candidate.start_distance_to_path_change,
                                           candidate.finish_distance_to_path_change),
                   !.candidate_uuid = m.uuid_map.left]
  ELSE IF candidate.lateral_shift < 0
    THEN [m EXCEPT !.rtc_interface_ptr_map.right =
                     updateCooperateStatus(@, m.uuid_map.right, isExecutionReady,
                                           candidate.start_distance_to_path_change,
                                           candidate.finish_distance_to_path_change),
                   !.candidate_uuid = m.uuid_map.right]
  ELSE m

\* mutant: only the left interface is asked for the candidate uuid
removeCandidateRTCStatus_LeftOnly(m) ==
  IF isRegistered(m.rtc_interface_ptr_map.left, m.candidate_uuid)
    THEN [m EXCEPT !.rtc_interface_ptr_map.left =
                     removeCooperateStatus(@, m.candidate_uuid)]
    ELSE m

removeCandidateRTCStatus(m) ==
  IF isRegistered(m.rtc_interface_ptr_map.left, m.candidate_uuid)
    THEN [m EXCEPT !.rtc_interface_ptr_map.left =
                     removeCooperateStatus(@, m.candidate_uuid)]
  ELSE IF isRegistered(m.rtc_interface_ptr_map.right, m.candidate_uuid)
    THEN [m EXCEPT !.rtc_interface_ptr_map.right =
                     removeCooperateStatus(@, m.candidate_uuid)]
  ELSE m

\* candidate outputs: a shift to the left, none, or to the right, starting here or
\* further on
CandidateOutputs ==
  {[lateral_shift |-> l, start_distance_to_path_change |-> d,
    finish_distance_to_path_change |-> d + 1] : l \in {-1, 0, 1}, d \in 0..MaxLines}

InitCandidate ==
  /\ parameters = BaseParameters
  /\ planner_data = [vehicle_width |-> 2]
  /\ now = 0
  /\ pc = "idle"
  /\ objects = <<>>
  /\ data = EmptyData
  /\ stopped_objects = <<>>
  /\ registered_objects = <<>>
  /\ InitHistory
  /\ InitMargin
  /\ InitLines
  /\ InitModule
  /\ InitNode
  /\ InitCall

UpdateCandidateRTCStatus ==
  /\ \E candidate \in CandidateOutputs : \E isExecutionReady \in BOOLEAN :
       /\ call' = [candidate |-> candidate, isExecutionReady |-> isExecutionReady]
       /\ module' = updateCandidateRTCStatus(module, candidate, isExecutionReady)
  /\ pc' = "candidate_updated"
  /\ UNCHANGED <<node, parameters, planner_data, now, objects, data, stopped_objects,
                 registered_objects, erased, prev_required, moving_since,
                 stopped_at, stopped_since, margin_in, margin_out, line_vars, ret>>

RemoveCandidateRTCStatus ==
  /\ module' = removeCandidateRTCStatus(module)
  /\ pc' = "candidate_removed"
  /\ UNCHANGED <<node, parameters, planner_data, now, objects, data, stopped_objects,
                 registered_objects, erased, prev_required, moving_since,
                 stopped_at, stopped_since, margin_in, margin_out, line_vars, call,
                 ret>>

NextCandidate == UpdateCandidateRTCStatus \/ RemoveCandidateRTCStatus

SpecCandidate == InitCandidate /\ [][NextCandidate]_vars

\* the status updateCooperateStatus registers for the candidate of the call
CandidateStatus(uuid) ==
  [uuid |-> uuid, safe |-> call'.isExecutionReady,
   start_distance |-> call'.candidate.start_distance_to_path_change,
   finish_distance |-> call'.candidate.finish_distance_to_path_change]

\* C34: updateCandidateRTCStatus with lateral_shift > 0 registers the status of
\* the candidate under the left uuid in the left interface, leaves the right
\* interface alone and sets candidate_uuid_ to the left uuid; with lateral_shift
\* < 0 it does the same on the right; with lateral_shift = 0 it changes neither
\* interface nor candidate_uuid_.  After removeCandidateRTCStatus candidate_uuid_
\* is registered in neither interface.
C34_CandidateStatus ==
  /\ [][UpdateCandidateRTCStatus =>
          LET shift == call'.candidate.lateral_shift
              before == module.rtc_interface_ptr_map
              after == module'.rtc_interface_ptr_map
          IN /\ shift > 0 =>
                  /\ after.left = {s \in before.left : s.uuid # module.uuid_map.left}
                                    \cup {CandidateStatus(module.uuid_map.left)}
                  /\ after.right = before.right
                  /\ module'.candidate_uuid = module.uuid_map.left
             /\ shift < 0 =>
                  /\ after.right = {s \in before.right : s.uuid # module.uuid_map.right}
                                     \cup {CandidateStatus(module.uuid_map.right)}
                  /\ after.left = before.left
                  /\ module'.candidate_uuid = module.uuid_map.right
             /\ shift = 0 => module' = module]_vars
  /\ [][RemoveCandidateRTCStatus =>
          /\ ~isRegistered(module'.rtc_interface_ptr_map.left, module'.candidate_uuid)
          /\ ~isRegistered(module'.rtc_interface_ptr_map.right, module'.candidate_uuid)
          /\ module'.candidate_uuid = module.candidate_uuid]_vars

\* a candidate to the left and then one to the right were reported, and the
\* status of the right one has been removed: the left one is still registered
C34_Witness ==
  /\ pc = "candidate_removed"
  /\ module.candidate_uuid = module.uuid_map.right
  /\ call # <<>>
  /\ isRegistered(module.rtc_interface_ptr_map.left, module.uuid_map.left)
  /\ module.rtc_interface_ptr_map.right = {}

-----------------------------------------------------------------------------
(* insertDecelPoint.  A path point is [x, v]: its arc position along the     *)
(* path and its longitudinal_velocity_mps, a float; floats are the even      *)
(* numbers, doubles all integers.                                            *)

\* the conversion of the double velocity to the float parameter of insertVelocity
ToFloat(x) == IF x % 2 = 0 THEN x ELSE x + 1

\* motion_utils::calcLongitudinalOffsetPoint: the point at the arc offset from
\* p_src, none when the path is empty or ends before it
calcLongitudinalOffsetPoint(points, p_src, offset) ==
  IF points = <<>> THEN <<>>
  ELSE LET x == Max2(points[1].x, Min2(p_src, points[Len(points)].x)) + offset
       IN IF x < points[1].x \/ x > points[Len(points)].x THEN <<>> ELSE <<x>>

\* motion_utils::findNearestSegmentIndex, counted from 1: the first segment that
\* holds the point
findNearestSegmentIndex(points, x) ==
  IF \E k \in 1..(Len(points) - 1) : points[k].x <= x /\ x <= points[k + 1].x
    THEN CHOOSE k \in 1..(Len(points) - 1) :
           /\ points[k].x <= x /\ x <= points[k + 1].x
           /\ \A j \in 1..(k - 1) : ~(points[j].x <= x /\ x <= points[j + 1].x)
    ELSE Len(points)

\* motion_utils::insertTargetPoint: none for a segment without end point or of
\* no length; the index of an end of the segment that the target overlaps; else a
\* copy of the front point of the segment with the pose of the target is
\* inserted behind it
insertTargetPoint(seg_idx, x, points) ==
  IF seg_idx + 1 > Len(points) \/ points[seg_idx].x = points[seg_idx + 1].x
    THEN [idx |-> <<>>, points |-> points]
  ELSE IF x = points[seg_idx].x THEN [idx |-> <<seg_idx>>, points |-> points]
  ELSE IF x = points[seg_idx + 1].x THEN [idx |-> <<seg_idx + 1>>, points |-> points]
  ELSE [idx |-> <<seg_idx + 1>>,
        points |-> SubSeq(points, 1, seg_idx) \o <<[points[seg_idx] EXCEPT !.x = x]>>
                     \o SubSeq(points, seg_idx + 1, Len(points))]

\* mutant: insertVelocity assigns v instead of the minimum
insertDecelPoint_AssignsVelocity(p_src, offset, velocity, path, p_out) ==
  LET decel_point == calcLongitudinalOffsetPoint(path, p_src, offset)
  IN IF decel_point = <<>> THEN [path |-> path, p_out |-> p_out]
     ELSE LET seg_idx == findNearestSegmentIndex(path, decel_point[1])
              inserted == insertTargetPoint(seg_idx, decel_point[1], path)
          IN IF inserted.idx = <<>> THEN [path |-> path, p_out |-> p_out]
             ELSE [path |-> [i \in 1..Len(inserted.points) |->
                               IF i >= inserted.idx[1]
                                 THEN [inserted.points[i] EXCEPT !.v = ToFloat(velocity)]
                                 ELSE inserted.points[i]],
                   p_out |-> <<inserted.points[inserted.idx[1]].x>>]

\* the path and p_out after the call
insertDecelPoint(p_src, offset, velocity, path, p_out) ==
  LET decel_point == calcLongitudinalOffsetPoint(path, p_src, offset)
  IN IF decel_point = <<>> THEN [path |-> path, p_out |-> p_out]
     ELSE LET seg_idx == findNearestSegmentIndex(path, decel_point[1])
              inserted == insertTargetPoint(seg_idx, decel_point[1], path)
              v == ToFloat(velocity)
          IN IF inserted.idx = <<>> THEN [path |-> path, p_out |-> p_out]
             ELSE [path |-> [i \in 1..Len(inserted.points) |->
                               IF i >= inserted.idx[1]
                                 THEN [inserted.points[i] EXCEPT !.v = Min2(@, v)]
                                 ELSE inserted.points[i]],
                   p_out |-> <<inserted.points[inserted.idx[1]].x>>]

\* paths of n points: the first at 0, every next one at the same place or two
\* further, any float velocity
RECURSIVE DecelPaths(_)
DecelPaths(n) ==
  IF n = 0 THEN {<<>>}
  ELSE IF n = 1 THEN {<<[x |-> 0, v |-> 2 * s]>> : s \in 0..MaxSpeed}
  ELSE {Append(q, [x |-> q[Len(q)].x + d, v |-> 2 * s]) :
          q \in DecelPaths(n - 1), d \in {0, 2}, s \in 0..MaxSpeed}

InitDecel ==
  /\ parameters = BaseParameters
  /\ planner_data = [vehicle_width |-> 2]
  /\ now = 0
  /\ pc = "decel"
  /\ objects = <<>>
  /\ data = EmptyData
  /\ stopped_objects = <<>>
  /\ registered_objects = <<>>
  /\ InitHistory
  /\ InitMargin
  /\ InitLines
  /\ InitModule
  /\ InitNode
  /\ call \in [p_src : {0, 2}, offset : {-1, 0, 1, 3}, velocity : 1..3,
               path : DecelPaths(0) \cup DecelPaths(MaxPoints),
               p_out : {<<>>, <<1>>}]
  /\ ret = <<>>

InsertDecelPoint ==
  /\ pc = "decel"
  /\ ret' = insertDecelPoint(call.p_src, call.offset, call.velocity, call.path, call.p_out)
  /\ pc' = "inserted"
  /\ UNCHANGED <<node, parameters, planner_data, now, objects, data, stopped_objects,
                 registered_objects, erased, prev_required, moving_since,
                 stopped_at, stopped_since, margin_in, margin_out, line_vars, module,
                 call>>

NextDecel == InsertDecelPoint

SpecDecel == InitDecel /\ [][NextDecel]_vars

\* the path of the call with the velocities from index idx on limited to v
Limited(points, idx, v) ==
  [i \in 1..Len(points) |->
     IF i >= idx THEN [points[i] EXCEPT !.v = Min2(@, v)] ELSE points[i]]

\* the points of the returned path but the one at index idx
Without(points, idx) == SubSeq(points, 1, idx - 1) \o SubSeq(points, idx + 1, Len(points))

\* C35: after insertDecelPoint either the path and p_out are as before the
\* call, or p_out is the pose of the point at an index idx of the path, the
\* points before idx are as before, the points from idx on that were in the path
\* have the minimum of their velocity and v, and a point inserted at idx has the
\* minimum of v and the velocity of the point before it, of which it is a copy;
\* no velocity is raised.
C35_DecelNeverRaises ==
  pc = "inserted" =>
    LET v == ToFloat(call.velocity)
    IN \/ ret.path = call.path /\ ret.p_out = call.p_out
       \/ \E idx \in 1..Len(ret.path) :
            /\ ret.p_out = <<ret.path[idx].x>>
            /\ \/ ret.path = Limited(call.path, idx, v)
               \/ /\ idx > 1
                  /\ Without(ret.path, idx) = Limited(call.path, idx, v)
                  /\ ret.path[idx].v = Min2(call.path[idx - 1].v, v)

\* a point was inserted in the middle of the path, faster points behind it were
\* slowed down and a slower one kept its velocity
C35_Witness ==
  /\ pc = "inserted"
  /\ Len(ret.path) = Len(call.path) + 1
  /\ \E idx \in 2..Len(call.path) :
       /\ ret.p_out = <<ret.path[idx].x>>
       /\ \E i \in idx..Len(call.path) : ret.path[i + 1].v < call.path[i].v
       /\ \E i \in idx..Len(call.path) :
            ret.path[i + 1].v = call.path[i].v /\ call.path[i].v < ToFloat(call.velocity)

-----------------------------------------------------------------------------
(* NDTScanMatcher: the callbacks of the node, each run from entry to return  *)

validate_num_iteration(iter_num, max_iter_num) == iter_num < max_iter_num

validate_score(score, score_threshold) == score > score_threshold

validate_converged_param(n, transform_probability, nearest_voxel_transformation_likelihood) ==
  IF n.converged_param_type = "TRANSFORM_PROBABILITY"
    THEN validate_score(transform_probability, n.converged_param_transform_probability)
  ELSE IF n.converged_param_type = "NEAREST_VOXEL_TRANSFORMATION_LIKELIHOOD"
    THEN validate_score(nearest_voxel_transformation_likelihood,
                        n.converged_param_nearest_voxel_transformation_likelihood)
  ELSE FALSE

\* mutant: the poses are published whether the scan converged or not
publish_pose_Always(is_converged) ==
  [ndt_pose |-> TRUE, ndt_pose_with_covariance |-> TRUE]

\* what publish_pose publishes
publish_pose(is_converged) ==
  [ndt_pose |-> is_converged, ndt_pose_with_covariance |-> is_converged]

\* nothing is aligned and no pose is published
NoPublication ==
  [aligned |-> FALSE, ndt_pose |-> FALSE, ndt_pose_with_covariance |-> FALSE]

\* callback_sensor_points from the alignment on: the node after the return and
\* what was published; popped is the length pop_old_pose leaves the buffer with
\* (it pops all poses but the newest, or none)
AlignScan(n, msg, popped) ==
  LET ndt_result == msg.ndt_result
      is_ok_iteration_num ==
        validate_num_iteration(ndt_result.iteration_num, n.ndt.max_iterations)
      is_local_optimal_solution_oscillation ==
        IF ~is_ok_iteration_num THEN ndt_result.oscillation ELSE FALSE
      is_ok_converged_param ==
        validate_converged_param(n, ndt_result.transform_probability,
                                 ndt_result.nearest_voxel_transformation_likelihood)
      is_converged == is_ok_iteration_num /\ is_ok_converged_param
      skipping_publish_num == IF is_converged THEN 0 ELSE n.skipping_publish_num + 1
      poses == publish_pose(is_converged)
  IN [node |->
        [n EXCEPT !.initial_pose_msg_ptr_array = popped,
                  !.skipping_publish_num = skipping_publish_num,
                  !.unconverged_run = IF is_converged THEN 0 ELSE @ + 1,
                  !.state =
                    [state |-> "Sleeping",
                     lidar_topic_delay_time_sec |-> msg.lidar_topic_delay_time_sec,
                     skipping_publish_num |-> skipping_publish_num,
                     nearest_voxel_transformation_likelihood |->
                       ndt_result.nearest_voxel_transformation_likelihood,
                     execution_time |-> ndt_result.exe_time,
                     is_local_optimal_solution_oscillation |->
                       IF is_local_optimal_solution_oscillation THEN 1 ELSE 0]],
      ret |-> [aligned |-> TRUE, ndt_pose |-> poses.ndt_pose,
               ndt_pose_with_covariance |-> poses.ndt_pose_with_covariance]]

callback_sensor_points(n, msg, popped) ==
  IF msg.empty THEN [node |-> n, ret |-> NoPublication]
  ELSE LET delayed == [n EXCEPT !.state.lidar_topic_delay_time_sec =
                                  msg.lidar_topic_delay_time_sec,
                                !.ndt.input_source = TRUE]
       IN IF ~n.is_activated THEN [node |-> delayed, ret |-> NoPublication]
          ELSE IF n.initial_pose_msg_ptr_array <= 1
            THEN [node |-> delayed, ret |-> NoPublication]
          ELSE IF ~msg.interpolated THEN [node |-> delayed, ret |-> NoPublication]
          ELSE IF ~n.ndt.input_target
            THEN [node |-> [delayed EXCEPT !.initial_pose_msg_ptr_array = popped],
                  ret |-> NoPublication]
          ELSE AlignScan(delayed, msg, popped)

callback_initial_pose(n, restarted) ==
  IF ~n.is_activated THEN n
  ELSE [n EXCEPT !.initial_pose_msg_ptr_array = IF restarted THEN 1 ELSE @ + 1]

service_trigger_node(n, req) ==
  IF req
    THEN [n EXCEPT !.is_activated = TRUE, !.initial_pose_msg_ptr_array = 0]
    ELSE [n EXCEPT !.is_activated = FALSE, !.state.state = "Initializing"]

\* service_ndt_align: the node after the return and res->success
service_ndt_align(n) ==
  IF ~n.ndt.input_target \/ ~n.ndt.input_source THEN [node |-> n, success |-> FALSE]
  ELSE [node |-> [n EXCEPT !.state.state = "Sleeping"], success |-> TRUE]

\* the level after the statements of one pass of the loop of timer_diagnostic, each
\* assigning it when its condition holds
DiagnosticLevel(n, state) ==
  LET l0 == "OK"
      l1 == IF state.state = "Initializing" THEN "WARN" ELSE l0
      l2 == IF /\ state.lidar_topic_delay_time_sec # Absent
               /\ state.lidar_topic_delay_time_sec > n.lidar_topic_timeout_sec
              THEN "WARN" ELSE l1
      l3 == IF /\ state.skipping_publish_num # Absent
               /\ state.skipping_publish_num > 1
               /\ state.skipping_publish_num < 5
              THEN "WARN" ELSE l2
      l4 == IF state.skipping_publish_num # Absent /\ state.skipping_publish_num >= 5
              THEN "ERROR" ELSE l3
      l5 == IF /\ state.nearest_voxel_transformation_likelihood # Absent
               /\ state.nearest_voxel_transformation_likelihood <
                    n.converged_param_nearest_voxel_transformation_likelihood
              THEN "WARN" ELSE l4
      l6 == IF /\ state.execution_time # Absent
               /\ state.execution_time >= n.critical_upper_bound_exe_time_ms
              THEN "WARN" ELSE l5
  IN IF /\ state.is_local_optimal_solution_oscillation # Absent
        /\ state.is_local_optimal_solution_oscillation # 0
       THEN "OK" ELSE l6

\* the status of the message one pass of the loop publishes
timer_diagnostic(n) == [values |-> n.state, level |-> DiagnosticLevel(n, n.state)]

\* results of an alignment, the thresholds being 2: scores below or above them,
\* the iterations below the maximum or at it, and then both scores alike, an
\* oscillation or none and an execution time below or above the critical bound
NdtResults ==
  {r \in [iteration_num : {1, 2}, transform_probability : {1, 3},
          nearest_voxel_transformation_likelihood : {1, 3},
          oscillation : BOOLEAN, exe_time : {1, 3}] :
     /\ r.iteration_num = 1 => (~r.oscillation /\ r.exe_time = 1)
     /\ r.iteration_num = 2 =>
          r.transform_probability = r.nearest_voxel_transformation_likelihood}

\* sensor messages: an empty one, one that no initial pose can be interpolated
\* for, and the ones that can be aligned, in time or (some of them) delayed
ScanMessages ==
  {[empty |-> e, interpolated |-> ~e, lidar_topic_delay_time_sec |-> 0,
    ndt_result |-> CHOOSE r \in NdtResults : TRUE] : e \in BOOLEAN}
  \cup {[empty |-> FALSE, interpolated |-> FALSE, lidar_topic_delay_time_sec |-> 2,
         ndt_result |-> CHOOSE r \in NdtResults : TRUE]}
  \cup {m \in [empty : {FALSE}, interpolated : {TRUE},
                lidar_topic_delay_time_sec : {0, 2}, ndt_result : NdtResults] :
          m.lidar_topic_delay_time_sec = 2 => m.ndt_result.iteration_num = 1}

InitNdt ==
  /\ parameters = BaseParameters
  /\ planner_data = [vehicle_width |-> 2]
  /\ now = 0
  /\ pc = "idle"
  /\ objects = <<>>
  /\ data = EmptyData
  /\ stopped_objects = <<>>
  /\ registered_objects = <<>>
  /\ InitHistory
  /\ InitMargin
  /\ InitLines
  /\ InitModule
  /\ InitCall
  /\ \E type \in {"TRANSFORM_PROBABILITY", "NEAREST_VOXEL_TRANSFORMATION_LIKELIHOOD",
                  "UNKNOWN"} :
       \E target \in IF type = "TRANSFORM_PROBABILITY" THEN BOOLEAN ELSE {TRUE} :
         node = [IdleNode EXCEPT !.converged_param_type = type,
                                 !.ndt.input_target = target]

NdtUnchanged ==
  UNCHANGED <<parameters, planner_data, now, objects, data, stopped_objects,
              registered_objects, erased, prev_required, moving_since, stopped_at,
              stopped_since, margin_in, margin_out, line_vars, module>>

CallbackSensorPoints ==
  /\ node.skipping_publish_num < MaxSkip
  /\ \E msg \in ScanMessages :
       \E popped \in IF msg.interpolated /\ node.is_activated
                        /\ node.initial_pose_msg_ptr_array > 1
                       THEN {1, node.initial_pose_msg_ptr_array} ELSE {1} :
         LET r == callback_sensor_points(node, msg, popped)
         IN /\ call' = msg
            /\ node' = r.node
            /\ ret' = r.ret
  /\ pc' = "scanned"
  /\ NdtUnchanged

CallbackInitialPose ==
  /\ \E restarted \in BOOLEAN :
       /\ restarted \/ node.initial_pose_msg_ptr_array < MaxPoses
       /\ call' = [restarted |-> restarted]
       /\ node' = callback_initial_pose(node, restarted)
  /\ ret' = <<>>
  /\ pc' = "posed"
  /\ NdtUnchanged

ServiceTriggerNode ==
  /\ \E req \in BOOLEAN :
       /\ call' = [data |-> req]
       /\ node' = service_trigger_node(node, req)
  /\ ret' = [success |-> TRUE]
  /\ pc' = "triggered"
  /\ NdtUnchanged

ServiceNdtAlign ==
  /\ LET r == service_ndt_align(node)
     IN /\ node' = r.node
        /\ ret' = [success |-> r.success]
  /\ call' = <<>>
  /\ pc' = "served"
  /\ NdtUnchanged

TimerDiagnostic ==
  /\ ret' = timer_diagnostic(node)
  /\ call' = <<>>
  /\ pc' = "diagnosed"
  /\ UNCHANGED node
  /\ NdtUnchanged

NextNdt ==
  \/ CallbackSensorPoints
  \/ CallbackInitialPose
  \/ ServiceTriggerNode
  \/ ServiceNdtAlign
  \/ TimerDiagnostic

SpecNdt == InitNdt /\ [][NextNdt]_vars

\* the scan converged: the iterations stayed below the maximum and the score the
\* node is configured to judge by is above its threshold
Converged(msg) ==
  /\ msg.ndt_result.iteration_num < node.ndt.max_iterations
  /\ \/ /\ node.converged_param_type = "TRANSFORM_PROBABILITY"
        /\ msg.ndt_result.transform_probability >
             node.converged_param_transform_probability
     \/ /\ node.converged_param_type = "NEAREST_VOXEL_TRANSFORMATION_LIKELIHOOD"
        /\ msg.ndt_result.nearest_voxel_transformation_likelihood >
             node.converged_param_nearest_voxel_transformation_likelihood

\* C36: a scan processed by callback_sensor_points has ndt_pose and
\* ndt_pose_with_covariance published only if it was aligned and converged; a
\* converged aligned scan resets skipping_publish_num to 0, another aligned scan
\* adds one to it and a scan that is not aligned leaves it, so that it is the
\* number of aligned scans since the last converged one; a scan processed while
\* the node is not activated is not aligned and has no pose published.
C36_PosePublication ==
  [][/\ node'.skipping_publish_num = node'.unconverged_run
     /\ CallbackSensorPoints =>
          /\ (ret'.ndt_pose \/ ret'.ndt_pose_with_covariance)
               => (ret'.aligned /\ Converged(call'))
          /\ node'.skipping_publish_num =
               IF ~ret'.aligned THEN node.skipping_publish_num
               ELSE IF Converged(call') THEN 0
               ELSE node.skipping_publish_num + 1
          /\ ~node.is_activated =>
               (~ret'.aligned /\ ~ret'.ndt_pose /\ ~ret'.ndt_pose_with_covariance)
    ]_vars

\* a scan published on the ground of its nearest-voxel likelihood, the score the
\* node is configured to judge by, with a transform probability below its threshold
C36_Witness ==
  /\ pc = "scanned"
  /\ ret.aligned
  /\ ret.ndt_pose
  /\ ret.ndt_pose_with_covariance
  /\ node.skipping_publish_num = 0
  /\ node.converged_param_type = "NEAREST_VOXEL_TRANSFORMATION_LIKELIHOOD"
  /\ call.ndt_result.transform_probability
       < node.converged_param_transform_probability

\* the level of the claim for the values of a message
MostSevere(values) ==
  IF /\ values.is_local_optimal_solution_oscillation # Absent
     /\ values.is_local_optimal_solution_oscillation # 0
    THEN "OK"
  ELSE IF values.skipping_publish_num # Absent /\ values.skipping_publish_num >= 5
    THEN "ERROR"
  ELSE IF \/ values.state = "Initializing"
          \/ /\ values.lidar_topic_delay_time_sec # Absent
             /\ values.lidar_topic_delay_time_sec > node.lidar_topic_timeout_sec
          \/ /\ values.skipping_publish_num # Absent
             /\ values.skipping_publish_num \in 2..4
          \/ /\ values.nearest_voxel_transformation_likelihood # Absent
             /\ values.nearest_voxel_transformation_likelihood <
                  node.converged_param_nearest_voxel_transformation_likelihood
          \/ /\ values.execution_time # Absent
             /\ values.execution_time >= node.critical_upper_bound_exe_time_ms
    THEN "WARN"
  ELSE "OK"

\* C37 as stated: the level of every message of timer_diagnostic is OK when the
\* oscillation flag is set, else ERROR when skipping_publish_num >= 5, else
\* WARN when a warning condition holds, else OK
C37_Original == pc = "diagnosed" => ret.level = MostSevere(ret.values)

-----------------------------------------------------------------------------
(* NDTScanMatcher: the threads of the node.  The diagnostic thread runs      *)
(* timer_diagnostic; the executor runs at most one callback of a mutually    *)
(* exclusive callback group at a time: callback_sensor_points and the two    *)
(* services in main_callback_group, callback_initial_pose in its own group,  *)
(* callback_regularization_pose in the default group of the node.  The       *)
(* position of a thread names the statements it is executing.                *)

\* the shared structures the statements at a position access, and how
Accesses(position) ==
  CASE position = "diag_read" -> {[structure |-> "state_ptr", write |-> FALSE]}
    [] position \in {"scan_delay", "scan_state", "trigger_state"}
         -> {[structure |-> "state_ptr", write |-> TRUE]}
    [] position = "scan_source" -> {[structure |-> "ndt_ptr", write |-> TRUE]}
    [] position \in {"scan_poses", "trigger_clear", "pose_push"}
         -> {[structure |-> "initial_pose_msg_ptr_array", write |-> TRUE]}
    [] position = "scan_regularization"
         -> {[structure |-> "regularization_pose_msg_ptr_array", write |-> TRUE],
             [structure |-> "ndt_ptr", write |-> TRUE]}
    [] position = "regularization_push"
         -> {[structure |-> "regularization_pose_msg_ptr_array", write |-> TRUE]}
    [] position \in {"scan_align", "align_run"}
         -> {[structure |-> "state_ptr", write |-> TRUE],
             [structure |-> "ndt_ptr", write |-> TRUE]}
    [] position \in {"scan_publish", "align_check"}
         -> {[structure |-> "ndt_ptr", write |-> FALSE]}
    [] OTHER -> {}

Threads == {"diagnostic", "main", "initial_pose", "regularization"}

\* the mutexes a thread holds
Held(t) ==
  {m \in {"ndt_ptr_mtx", "initial_pose_array_mtx"} : node[m] = t}

\* the thread moves to a position, locking or unlocking as it goes
Goto(n, t, position) == [n EXCEPT !.thread[t] = position]

Lock(n, t, mtx, position) ==
  [n EXCEPT !.thread[t] = position, ![mtx] = t]

Unlock(n, t, mtx, position) ==
  [n EXCEPT !.thread[t] = position, ![mtx] = "free"]

\* return of callback_sensor_points: the guards are destroyed
ReturnFromScan(n) ==
  [n EXCEPT !.thread.main = "idle", !.ndt_ptr_mtx = "free",
            !.initial_pose_array_mtx = IF @ = "main" THEN "free" ELSE @]

\* the next positions of timer_diagnostic
timer_diagnostic_step(n) ==
  IF n.thread.diagnostic = "diag_read"
    THEN {Goto(n, "diagnostic", "idle")}
    ELSE {Goto(n, "diagnostic", "diag_read")}

\* the next positions of callback_sensor_points
callback_sensor_points_step(n) ==
  LET at == n.thread.main
  IN CASE at = "idle" -> {Goto(n, "main", "scan_delay")}
       [] at = "scan_delay" -> {Goto(n, "main", "scan_lock_ndt")}
       [] at = "scan_lock_ndt" ->
            IF n.ndt_ptr_mtx = "free"
              THEN {Lock(n, "main", "ndt_ptr_mtx", "scan_source")} ELSE {}
       [] at = "scan_source" ->
            IF ~n.is_activated THEN {ReturnFromScan(n)}
            ELSE {Goto(n, "main", "scan_lock_pose")}
       [] at = "scan_lock_pose" ->
            IF n.initial_pose_array_mtx = "free"
              THEN {Lock(n, "main", "initial_pose_array_mtx", "scan_poses")} ELSE {}
       [] at = "scan_poses" ->
            {ReturnFromScan(n),
             Unlock(n, "main", "initial_pose_array_mtx",
                    IF n.regularization_enabled THEN "scan_regularization"
                    ELSE "scan_map")}
       [] at = "scan_regularization" -> {Goto(n, "main", "scan_map")}
       [] at = "scan_map" -> {ReturnFromScan(n), Goto(n, "main", "scan_align")}
       [] at = "scan_align" -> {Goto(n, "main", "scan_publish")}
       [] at = "scan_publish" -> {Goto(n, "main", "scan_state")}
       [] at = "scan_state" -> {ReturnFromScan(n)}
       [] OTHER -> {}

\* the next positions of service_trigger_node
service_trigger_node_step(n) ==
  LET at == n.thread.main
  IN CASE at = "idle" ->
            {[n EXCEPT !.thread.main = IF req THEN "trigger_lock_pose"
                                        ELSE "trigger_state",
                       !.is_activated = req] : req \in BOOLEAN}
       [] at = "trigger_lock_pose" ->
            IF n.initial_pose_array_mtx = "free"
              THEN {Lock(n, "main", "initial_pose_array_mtx", "trigger_clear")} ELSE {}
       [] at = "trigger_clear" -> {Unlock(n, "main", "initial_pose_array_mtx", "idle")}
       [] at = "trigger_state" -> {Goto(n, "main", "idle")}
       [] OTHER -> {}

\* the next positions of service_ndt_align
service_ndt_align_step(n) ==
  LET at == n.thread.main
  IN CASE at = "idle" -> {Goto(n, "main", "align_lock_ndt")}
       [] at = "align_lock_ndt" ->
            IF n.ndt_ptr_mtx = "free"
              THEN {Lock(n, "main", "ndt_ptr_mtx", "align_check")} ELSE {}
       [] at = "align_check" ->
            {Unlock(n, "main", "ndt_ptr_mtx", "idle"), Goto(n, "main", "align_run")}
       [] at = "align_run" -> {Unlock(n, "main", "ndt_ptr_mtx", "idle")}
       [] OTHER -> {}

\* the next positions of callback_initial_pose
callback_initial_pose_step(n) ==
  LET at == n.thread.initial_pose
  IN CASE at = "idle" ->
            IF ~n.is_activated THEN {n} ELSE {Goto(n, "initial_pose", "pose_lock")}
       [] at = "pose_lock" ->
            IF n.initial_pose_array_mtx = "free"
              THEN {Lock(n, "initial_pose", "initial_pose_array_mtx", "pose_push")}
              ELSE {}
       [] at = "pose_push" ->
            {Unlock(n, "initial_pose", "initial_pose_array_mtx", "idle")}
       [] OTHER -> {}

\* the next positions of callback_regularization_pose
callback_regularization_pose_step(n) ==
  IF n.thread.regularization = "idle"
    THEN {Goto(n, "regularization", "regularization_push")}
    ELSE {Goto(n, "regularization", "idle")}

InitThreads ==
  /\ parameters = BaseParameters
  /\ planner_data = [vehicle_width |-> 2]
  /\ now = 0
  /\ pc = "idle"
  /\ objects = <<>>
  /\ data = EmptyData
  /\ stopped_objects = <<>>
  /\ registered_objects = <<>>
  /\ InitHistory
  /\ InitMargin
  /\ InitLines
  /\ InitModule
  /\ InitCall
  /\ \E enabled \in BOOLEAN : node = [IdleNode EXCEPT !.regularization_enabled = enabled]

DiagnosticStep ==
  /\ node' \in timer_diagnostic_step(node)
  /\ pc' = "timer_diagnostic"
  /\ UNCHANGED <<call, ret>>
  /\ NdtUnchanged

SensorPointsStep ==
  /\ node' \in callback_sensor_points_step(node)
  /\ pc' = "callback_sensor_points"
  /\ UNCHANGED <<call, ret>>
  /\ NdtUnchanged

TriggerNodeStep ==
  /\ node' \in service_trigger_node_step(node)
  /\ pc' = "service_trigger_node"
  /\ UNCHANGED <<call, ret>>
  /\ NdtUnchanged

NdtAlignStep ==
  /\ node' \in service_ndt_align_step(node)
  /\ pc' = "service_ndt_align"
  /\ UNCHANGED <<call, ret>>
  /\ NdtUnchanged

InitialPoseStep ==
  /\ node' \in callback_initial_pose_step(node)
  /\ pc' = "callback_initial_pose"
  /\ UNCHANGED <<call, ret>>
  /\ NdtUnchanged

RegularizationPoseStep ==
  /\ node' \in callback_regularization_pose_step(node)
  /\ pc' = "callback_regularization_pose"
  /\ UNCHANGED <<call, ret>>
  /\ NdtUnchanged

NextThreads ==
  \/ DiagnosticStep
  \/ SensorPointsStep
  \/ TriggerNodeStep
  \/ NdtAlignStep
  \/ InitialPoseStep
  \/ RegularizationPoseStep

SpecThreads == InitThreads /\ [][NextThreads]_vars

\* two threads are at statements that access the same structure, one of them
\* writing, and hold no mutex in common
Race(t, u) ==
  /\ t # u
  /\ \E a \in Accesses(node.thread[t]) : \E b \in Accesses(node.thread[u]) :
       /\ a.structure = b.structure
       /\ a.write \/ b.write
  /\ Held(t) \cap Held(u) = {}

\* the mutex a thread is waiting for, <<>> when it waits for none
WaitsFor(t) ==
  CASE node.thread[t] \in {"scan_lock_ndt", "align_lock_ndt"} -> <<"ndt_ptr_mtx">>
    [] node.thread[t] \in {"scan_lock_pose", "trigger_lock_pose", "pose_lock"}
         -> <<"initial_pose_array_mtx">>
    [] OTHER -> <<>>

\* two threads wait for a mutex each that the other holds
Deadlocked ==
  \E t, u \in Threads :
    /\ t # u
    /\ WaitsFor(t) # <<>> /\ node[WaitsFor(t)[1]] = u
    /\ WaitsFor(u) # <<>> /\ node[WaitsFor(u)[1]] = t

\* C38 as stated: no two threads ever access the same shared structure at the
\* same time, one of them writing, without a common mutex, and no two threads
\* wait for ndt_ptr_mtx_ and initial_pose_array_mtx_ held by each other
C38_Original ==
  /\ \A t, u \in Threads : ~Race(t, u)
  /\ ~Deadlocked

=============================================================================
